---- MODULE Spec2Model ----
(***************************************************************************)
(* Conversation synchronization and delivery engine of the AI chat          *)
(* frontend: the message log and conversation registry (two Firestore       *)
(* collections), the submission handler with its retrying HTTP client, the   *)
(* live subscriptions, and the cascading deletion handlers.                  *)
(*                                                                         *)
(* Modelling conventions.                                                   *)
(*  - Every `await` of a handler is a step boundary: an action is the        *)
(*    resolution of the awaited call (its effect on the store, or its        *)
(*    failure) followed by the handler's synchronous code up to the next     *)
(*    await.                                                                 *)
(*  - A handler closes over the React state of the render in which it was    *)
(*    created; the values it captured at the event (currentChatId, messages, *)
(*    selectedImage, the trimmed input) are fields of its process record.    *)
(*  - State set by an accepted submit is seen by later handlers only after  *)
(*    the component has rendered again (Render); until then a submit event   *)
(*    runs the handler of the earlier render (SendStale).                    *)
(*  - A snapshot listener is called some time after the query result has     *)
(*    changed; other steps may come first.                                   *)
(*  - The specifications share the actions; each one explores a part of the  *)
(*    program with the inputs and budgets named in its initial state.        *)
(*  - Strings are sequences of one-character strings.                        *)
(*  - serverTimestamp() is the store's clock, advanced on every write.       *)
(***************************************************************************)
EXTENDS Integers, Sequences, FiniteSets, TLC

(* ------------------------------ bounds --------------------------------- *)
\* conversation ids the store may allocate
MaxChats == 2
\* submissions the user may have accepted
MaxSends == 2
\* submissions explored for the HTTP client alone
FetchSends == 1
\* turns appended by another client of the same store
MaxOther == 1
\* store calls that may fail
MaxFaults == 1
\* regenerate timers pending at once
MaxTimers == 1
\* delete and clear-all operations the user may start
MaxDeletes == 2
\* submission processes the model can hold at once
MaxSlots == 2
\* submissions in the runs with another client and with deletions
ViewSends == 1
RaceSends == 1
RaceDeletes == 1
\* deletions of the long conversation
LongDeletes == 1
\* submissions in the runs with failing store calls
FaultSends == 1
\* the lengths of the long conversation
TurnCounts == {0, 1, 199, 200, 201, 399, 400, 401, 450}

(* ------------------------- program constants --------------------------- *)
retries == 3
batchSize == 200
maxBatchSize == 500
TitleLimit == 40

NoChat == 0
NoImage == "none"

(* ------------------------------ strings -------------------------------- *)
IsWs(c) == c \in {" ", "\n", "\t"}

RECURSIVE TrimLeft(_)
TrimLeft(s) == IF s # <<>> /\ IsWs(Head(s)) THEN TrimLeft(Tail(s)) ELSE s

RECURSIVE TrimRight(_)
TrimRight(s) ==
  IF s # <<>> /\ IsWs(s[Len(s)]) THEN TrimRight(SubSeq(s, 1, Len(s) - 1)) ELSE s

\* String.prototype.trim
trim(s) == TrimRight(TrimLeft(s))

\* s.startsWith(p) at 1-based position k
StartsAt(s, p, k) ==
  /\ k + Len(p) - 1 <= Len(s)
  /\ \A j \in 1..Len(p) : s[k + j - 1] = p[j]

StrImageTag == <<"[", "I", "m", "a", "g", "e", "]">>
StrImageChat == <<"I", "m", "a", "g", "e", " ", "c", "h", "a", "t">>
StrWhatsInImage == <<"W", "h", "a", "t", "'", "s", " ", "i", "n", " ", "t", "h", "i", "s", " ", "i", "m", "a", "g", "e", "?">>
StrEllipsis == <<".", ".", ".">>
StrNewChat == <<"N", "e", "w", " ", "C", "h", "a", "t">>
StrSorry == <<"I", "'", "m", " ", "s", "o", "r", "r", "y", ",", " ", "I", " ", "c", "o", "u", "l", "d", "n", "'", "t", " ", "g", "e", "n", "e", "r", "a", "t", "e", " ", "a", " ", "r", "e", "s", "p", "o", "n", "s", "e", ".">>
StrErrorOccurred == <<"E", "r", "r", "o", "r", " ", "o", "c", "c", "u", "r", "r", "e", "d">>
\* the welcome text and the load-error text embed the user name and the
\* error message; only their fixed heads are kept
StrWelcome == <<"H", "e", "l", "l", "o">>
StrLoadError == <<"E", "r", "r", "o", "r", " ", "l", "o", "a", "d", "i", "n", "g", " ", "m", "e", "s", "s", "a", "g", "e", "s", ".">>

(* ------------------------------- state --------------------------------- *)
VARIABLES
  \* the durable store: collection "chats" (id -> document), collection
  \* "messages" (a set of documents), the server clock and the id allocators
  chatDocs, msgDocs, clock, nextChatId, nextMsgId,
  \* React state of the chat component (AIChat.jsx:27-43)
  messages, input, isLoading, currentChatId, selectedImage,
  \* the message listener of the current chat: "none" (no chat), "new"
  \* (attached, nothing delivered yet), "live", "dead" (ended by an error),
  \* and the query result it delivered last
  msgSub, lastSnap,
  \* React state of the sidebar (ChatHistory.jsx:8-16)
  chats, isClearing, searchQuery, selectedCategory,
  \* updateDoc calls of the sidebar that have not resolved yet
  patches,
  \* running handleSendMessage calls, one record per call
  sub,
  \* createNewChat calls whose addDoc has not resolved yet
  pendingNew,
  \* pending timers of regenerateResponse
  timers,
  \* the delayed onAuthSuccess call of the sign-in form that has not fired yet
  authTimer,
  \* the running handleDeleteChat and handleClearAllChats calls
  del, clr,
  \* what is left of the budgets of the bounded exploration: submissions the
  \* user may still make, turns another client may still append, store calls
  \* that may still fail, deletions the user may still start
  sends, others, faults, dels,
  \* and the pin and category edits the user may still make
  edits,
  \* history per conversation: submissions accepted, submissions that ran the
  \* success path to its end, and whether anything else wrote to its log
  ledger

store == <<chatDocs, msgDocs, clock, nextChatId, nextMsgId>>
ui == <<messages, input, isLoading, currentChatId, selectedImage, msgSub, lastSnap>>
panel == <<searchQuery, selectedCategory, patches, edits>>
side == <<chats, isClearing, panel>>
budget == <<sends, others, faults, dels>>
vars == <<store, ui, side, sub, pendingNew, timers, authTimer, del, clr, budget, ledger>>

ChatIds == 1..MaxChats

(* --------------------------- the two queries --------------------------- *)
\* the documents of S with the newest first
RECURSIVE OrderByCreatedAtDesc(_)
OrderByCreatedAtDesc(S) ==
  IF S = {} THEN <<>>
  ELSE LET m == CHOOSE x \in S : \A y \in S :
                  \/ x.createdAt > y.createdAt
                  \/ (x.createdAt = y.createdAt /\ x.id >= y.id)
       IN <<m>> \o OrderByCreatedAtDesc(S \ {m})

\* the documents of S in ascending order of createdAt (ties by document id)
RECURSIVE OrderByCreatedAt(_)
OrderByCreatedAt(S) ==
  IF S = {} THEN <<>>
  ELSE LET m == CHOOSE x \in S : \A y \in S :
                  \/ x.createdAt < y.createdAt
                  \/ (x.createdAt = y.createdAt /\ x.id <= y.id)
       IN <<m>> \o OrderByCreatedAt(S \ {m})

\* query(messages, where chatId == c, orderBy createdAt)
MessagesQuery(c) == OrderByCreatedAt({m \in msgDocs : m.chatId = c})

\* the chat ids of D in descending order of updatedAt (ties by document id)
RECURSIVE OrderByUpdatedAtDesc(_)
OrderByUpdatedAtDesc(D) ==
  IF D = {} THEN <<>>
  ELSE LET c == CHOOSE x \in D : \A y \in D :
                  \/ chatDocs[x].updatedAt > chatDocs[y].updatedAt
                  \/ (chatDocs[x].updatedAt = chatDocs[y].updatedAt /\ x <= y)
       IN <<c>> \o OrderByUpdatedAtDesc(D \ {c})

\* query(chats, where userId == uid, orderBy updatedAt desc), each row
\* {id, ...doc.data()}; of the document a row keeps the fields the sidebar's
\* handlers and derived view read (title, pinned, category)
ChatsQuery ==
  LET ids == OrderByUpdatedAtDesc(DOMAIN chatDocs)
  IN [k \in 1..Len(ids) |->
        [id |-> ids[k], title |-> chatDocs[ids[k]].title,
         pinned |-> chatDocs[ids[k]].pinned,
         category |-> chatDocs[ids[k]].category]]

\* query(messages, where chatId == c, limit(n)): the first n documents in
\* the store's default order (document id)
FirstIds(I, n) == {x \in I : Cardinality({y \in I : y < x}) < n}

\* a page query that ignores its limit
LimitQueryUnbounded(c, n) == {m.id : m \in {d \in msgDocs : d.chatId = c}}

LimitQuery(c, n) == FirstIds({m.id : m \in {d \in msgDocs : d.chatId = c}}, n)

(* ----------------------------- documents ------------------------------- *)
NewChatDoc(t) ==
  [title |-> StrNewChat, createdAt |-> t, updatedAt |-> t, lastMessage |-> <<>>,
   lastSender |-> "", pinned |-> FALSE, category |-> "personal"]

MsgDoc(id, c, sender, text, t, imageData, imageUrl, isError) ==
  [id |-> id, chatId |-> c, sender |-> sender, text |-> text, createdAt |-> t,
   hasImage |-> (imageData # NoImage \/ imageUrl # <<>>),
   imageData |-> imageData, imageUrl |-> imageUrl, isError |-> isError,
   isWelcome |-> FALSE]

\* the placeholder pushed by the message listener (AIChat.jsx:186-190, 199-203)
Placeholder(text) ==
  [id |-> 0, chatId |-> NoChat, sender |-> "ai", text |-> text, createdAt |-> 0,
   hasImage |-> FALSE, imageData |-> NoImage, imageUrl |-> <<>>,
   isError |-> FALSE, isWelcome |-> TRUE]

IdleSub ==
  [pc |-> "idle", chatId |-> NoChat, text |-> <<>>, image |-> NoImage,
   msgs |-> <<>>, i |-> 0, reqLog |-> <<>>, delays |-> <<>>, url |-> "",
   contents |-> <<>>, rawText |-> <<>>, aiText |-> <<>>, imageUrl |-> <<>>,
   err |-> <<>>, fresh |-> FALSE]

NoLedger == [accepted |-> 0, succeeded |-> 0, touched |-> FALSE]

\* a handleDeleteChat call: the chat, the currentChatId it closed over, the
\* page it read, and the sizes of the pages it committed
IdleDel == [pc |-> "idle", chatId |-> NoChat, cur |-> NoChat, batch |-> {},
            pages |-> <<>>]
\* a handleClearAllChats call: the captured ids, the position k of the outer
\* loop, the page it read, the offset i of the record loop, the sizes of
\* the message pages and record batches it committed, and the server time
\* at which it started
IdleClr == [pc |-> "idle", chatIds |-> <<>>, k |-> 0, batch |-> {}, i |-> 0,
            pages |-> <<>>, recs |-> <<>>, since |-> 0]

(* ------------------------------- Init ---------------------------------- *)
\* The component has mounted with a signed-in user: the effect of
\* AIChat.jsx:154-158 has called createNewChat, whose addDoc is pending.
Start(nSends, nOthers, nFaults, nDels) ==
  /\ chatDocs = <<>> /\ msgDocs = {} /\ clock = 0
  /\ nextChatId = 1 /\ nextMsgId = 1
  /\ messages = <<>> /\ input = <<>> /\ isLoading = FALSE
  /\ currentChatId = NoChat /\ selectedImage = NoImage
  /\ msgSub = "none" /\ lastSnap = <<>>
  /\ chats = <<>> /\ isClearing = FALSE
  /\ searchQuery = <<>> /\ selectedCategory = "all"
  /\ patches = {} /\ edits = 0
  /\ sub = [s \in 1..MaxSlots |-> IdleSub]
  /\ pendingNew = 1 /\ timers = 0 /\ authTimer = 0
  /\ del = IdleDel /\ clr = IdleClr
  /\ sends = nSends /\ others = nOthers /\ faults = nFaults /\ dels = nDels
  /\ ledger = [c \in ChatIds |-> NoLedger]

(* --------------------------- small helpers ----------------------------- *)
\* a store call may be made to fail while the fault budget lasts
MayFail == faults > 0

Bump(c, field) == [ledger EXCEPT ![c][field] = @ + 1]
Touch(C) == [c \in ChatIds |-> IF c \in C THEN [ledger[c] EXCEPT !.touched = TRUE]
                                ELSE ledger[c]]

Running == {s \in 1..MaxSlots : sub[s].pc # "idle"}

TextHi == <<"h", "i", " ">>
TextLong == [k \in 1..(TitleLimit + 1) |-> "x"]
\* what the user may type into the input box
Inputs == {<<" ">>, TextHi, TextLong}

(* ------------------------- the user's typing --------------------------- *)
\* the input box is disabled while loading (AIChat.jsx:853)
TypeInput(t) ==
  /\ ~isLoading /\ t # input
  /\ input' = t
  /\ UNCHANGED <<store, messages, isLoading, currentChatId, selectedImage,
                 msgSub, lastSnap, side, sub, pendingNew, timers, authTimer, del, clr,
                 budget, ledger>>

\* handleImageSelect, AIChat.jsx:603-617 (the button is disabled while loading)
HandleImageSelect ==
  /\ ~isLoading /\ selectedImage = NoImage
  /\ selectedImage' = "img"
  /\ UNCHANGED <<store, messages, input, isLoading, currentChatId, msgSub,
                 lastSnap, side, sub, pendingNew, timers, authTimer, del, clr, budget,
                 ledger>>

\* handleRemoveImage, AIChat.jsx:619-624
HandleRemoveImage ==
  /\ selectedImage # NoImage
  /\ selectedImage' = NoImage
  /\ UNCHANGED <<store, messages, input, isLoading, currentChatId, msgSub,
                 lastSnap, side, sub, pendingNew, timers, authTimer, del, clr, budget,
                 ledger>>

(* ---------------------------- createNewChat ---------------------------- *)
\* the store can still allocate a conversation id
CreateChatOk == nextChatId <= MaxChats

\* createNewChat, AIChat.jsx:131-144: addDoc resolved, the new chat becomes
\* the current one and the message listener is re-attached to it
NewChatWrite ==
  /\ chatDocs' = (nextChatId :> NewChatDoc(clock + 1)) @@ chatDocs
  /\ clock' = clock + 1 /\ nextChatId' = nextChatId + 1
  /\ currentChatId' = nextChatId /\ messages' = <<>>
  /\ msgSub' = "new" /\ lastSnap' = <<>>
  /\ UNCHANGED <<msgDocs, nextMsgId>>

\* a createNewChat call made by the mount effect, handleNewChat or onNewChat
CreateNewChatResolve ==
  /\ pendingNew > 0 /\ pendingNew' = pendingNew - 1
  /\ \/ CreateChatOk /\ NewChatWrite /\ UNCHANGED faults
     \/ /\ ~CreateChatOk \/ MayFail
        /\ faults' = IF CreateChatOk THEN faults - 1 ELSE faults
        /\ UNCHANGED <<store, messages, currentChatId, msgSub, lastSnap>>
  /\ UNCHANGED <<input, isLoading, selectedImage, side, sub, timers, authTimer, del, clr,
                 sends, others, dels, ledger>>

\* handleNewChat, AIChat.jsx:476-478
HandleNewChat ==
  /\ nextChatId + pendingNew <= MaxChats
  /\ pendingNew' = pendingNew + 1
  /\ UNCHANGED <<store, ui, side, sub, timers, authTimer, del, clr, budget, ledger>>

\* handleSelectChat, AIChat.jsx:471-474, on a row of the sidebar; the
\* listener effect (AIChat.jsx:161-208) runs again only if the id changed
HandleSelectChat(c) ==
  /\ \E k \in 1..Len(chats) : chats[k].id = c
  /\ currentChatId' = c /\ messages' = <<>>
  /\ IF c # currentChatId
       THEN msgSub' = "new" /\ lastSnap' = <<>>
       ELSE UNCHANGED <<msgSub, lastSnap>>
  /\ <<currentChatId', messages'>> # <<currentChatId, messages>>
  /\ UNCHANGED <<store, input, isLoading, selectedImage, side, sub, pendingNew,
                 timers, authTimer, del, clr, budget, ledger>>

(* ------------------------- live subscriptions -------------------------- *)
\* a view that shows the welcome placeholder before every snapshot
SnapshotViewAlwaysWelcome(q) == <<Placeholder(StrWelcome)>> \o q

\* what the listener callback builds from a query result, AIChat.jsx:176-192
SnapshotView(q) == IF Len(q) = 0 THEN <<Placeholder(StrWelcome)>> ELSE q

\* onSnapshot next-callback of the message listener: fires once on attach
\* and then whenever the query result changes
MessagesSnapshot ==
  /\ currentChatId # NoChat /\ msgSub \in {"new", "live"}
  /\ LET q == MessagesQuery(currentChatId)
     IN /\ msgSub = "new" \/ q # lastSnap
        /\ lastSnap' = q
        /\ messages' = SnapshotView(q)
  /\ msgSub' = "live"
  /\ UNCHANGED <<store, input, isLoading, currentChatId, selectedImage, side,
                 sub, pendingNew, timers, authTimer, del, clr, budget, ledger>>

\* onSnapshot error-callback of the message listener, AIChat.jsx:194-204;
\* the listener is ended by the error
MessagesSnapshotError ==
  /\ currentChatId # NoChat /\ msgSub \in {"new", "live"} /\ MayFail
  /\ faults' = faults - 1
  /\ messages' = <<Placeholder(StrLoadError)>>
  /\ msgSub' = "dead"
  /\ UNCHANGED <<store, input, isLoading, currentChatId, selectedImage,
                 lastSnap, side, sub, pendingNew, timers, authTimer, del, clr, sends,
                 others, dels, ledger>>

\* onSnapshot next-callback of the sidebar listener, ChatHistory.jsx:36-43
ChatsSnapshot ==
  /\ chats # ChatsQuery
  /\ chats' = ChatsQuery
  /\ UNCHANGED <<store, ui, isClearing, panel, sub, pendingNew, timers, authTimer, del, clr,
                 budget, ledger>>

(* -------------------------- directive parser --------------------------- *)
StrTag == <<"[", "I", "M", "A", "G", "E", "_", "R", "E", "Q", "U", "E", "S", "T", ":">>
StrUrlHead == <<"h", "t", "t", "p", "s", ":", "/", "/", "i", "m", "a", "g", "e", ".", "p", "o", "l", "l", "i", "n", "a", "t", "i", "o", "n", "s", ".", "a", "i", "/", "p", "r", "o", "m", "p", "t", "/">>
StrUrlTail == <<"?", "w", "i", "d", "t", "h", "=", "5", "1", "2", "&", "h", "e", "i", "g", "h", "t", "=", "5", "1", "2", "&", "n", "o", "l", "o", "g", "o", "=", "t", "r", "u", "e">>
StrCaptionHead == <<"H", "e", "r", "e", "'", "s", " ", "t", "h", "e", " ", "i", "m", "a", "g", "e", " ", "y", "o", "u", " ", "r", "e", "q", "u", "e", "s", "t", "e", "d", ":", " ", "\"">>
StrErrHead == <<"I", " ", "e", "n", "c", "o", "u", "n", "t", "e", "r", "e", "d", " ", "a", "n", " ", "e", "r", "r", "o", "r", ":", " ">>
StrErrTail == <<".", " ", "P", "l", "e", "a", "s", "e", " ", "t", "r", "y", " ", "a", "g", "a", "i", "n", " ", "o", "r", " ", "c", "h", "e", "c", "k", " ", "y", "o", "u", "r", " ", "c", "o", "n", "n", "e", "c", "t", "i", "o", "n", ".">>
StrClientError == <<"C", "l", "i", "e", "n", "t", " ", "E", "r", "r", "o", "r", ":", " ">>
StrServerError == <<"S", "e", "r", "v", "e", "r", " ", "E", "r", "r", "o", "r", ":", " ">>
StrFailedToFetch == <<"F", "a", "i", "l", "e", "d", " ", "t", "o", " ", "f", "e", "t", "c", "h">>
StrWriteFailed == <<"w", "r", "i", "t", "e", " ", "f", "a", "i", "l", "e", "d">>
StrNotFound == <<"N", "o", " ", "d", "o", "c", "u", "m", "e", "n", "t", " ", "t", "o", " ", "u", "p", "d", "a", "t", "e">>

\* characters encodeURIComponent leaves as they are
Unreserved == {"a", "b", "c", "d", "e", "f", "g", "h", "i", "j", "k", "l", "m", "n", "o", "p", "q", "r", "s", "t", "u", "v", "w", "x", "y", "z", "A", "B", "C", "D", "E", "F", "G", "H", "I", "J", "K", "L", "M", "N", "O", "P", "Q", "R", "S", "T", "U", "V", "W", "X", "Y", "Z", "0", "1", "2", "3", "4", "5", "6", "7", "8", "9", "-", "_", ".", "!", "~", "*", "'", "(", ")"}

\* the escapes of the other characters the model's texts use
Escape(c) ==
  CASE c = " " -> <<"%", "2", "0">>
    [] c = "[" -> <<"%", "5", "B">>
    [] c = "]" -> <<"%", "5", "D">>
    [] c = ":" -> <<"%", "3", "A">>
    [] c = "," -> <<"%", "2", "C">>
    [] c = "?" -> <<"%", "3", "F">>
    [] c = "\n" -> <<"%", "0", "A">>
    [] c = "\t" -> <<"%", "0", "9">>
    [] c = "\"" -> <<"%", "2", "2">>
    [] OTHER -> <<"%", "?", "?">>

RECURSIVE encodeURIComponent(_)
encodeURIComponent(s) ==
  IF s = <<>> THEN <<>>
  ELSE (IF Head(s) \in Unreserved THEN <<Head(s)>> ELSE Escape(Head(s)))
         \o encodeURIComponent(Tail(s))

\* a URL that embeds the prompt as it is
generateImageURLRaw(prompt) == StrUrlHead \o prompt \o StrUrlTail

\* generateImageURL, AIChat.jsx:17-20
generateImageURL(prompt) == StrUrlHead \o encodeURIComponent(prompt) \o StrUrlTail

\* length of the run of whitespace of s that starts at position a
RECURSIVE WsRun(_, _)
WsRun(s, a) == IF a <= Len(s) /\ IsWs(s[a]) THEN 1 + WsRun(s, a + 1) ELSE 0

\* "." of a JavaScript regular expression: any character but a line end
IsDot(c) == c \notin {"\n", "\r"}

\* the group [g..e] closes a match: one or more "." characters and then "]"
Closes(s, g, e) ==
  /\ g <= e /\ e + 1 <= Len(s)
  /\ \A j \in g..e : IsDot(s[j])
  /\ s[e + 1] = "]"

\* the match of /\[IMAGE_REQUEST:\s*(.+?)\]/ that starts at position p, if
\* any: \s* is greedy and gives back, (.+?) is lazy
MatchesAt(s, p) ==
  /\ StartsAt(s, StrTag, p)
  /\ LET a == p + Len(StrTag)
     IN \E w \in 0..WsRun(s, a) : \E e \in (a + w)..Len(s) : Closes(s, a + w, e)

MatchAt(s, p) ==
  LET a == p + Len(StrTag)
      W == {w \in 0..WsRun(s, a) : \E e \in (a + w)..Len(s) : Closes(s, a + w, e)}
      w == CHOOSE x \in W : \A y \in W : y <= x
      E == {e \in (a + w)..Len(s) : Closes(s, a + w, e)}
      e == CHOOSE x \in E : \A y \in E : x <= y
  IN [from |-> p, to |-> e + 1, group |-> SubSeq(s, a + w, e)]

\* the rightmost match instead of the leftmost
LastMatch(s) ==
  LET P == {p \in 1..Len(s) : MatchesAt(s, p)}
  IN MatchAt(s, CHOOSE p \in P : \A q \in P : q <= p)

\* aiText.match(...): the leftmost match, or no match
HasMatch(s) == \E p \in 1..Len(s) : MatchesAt(s, p)
FirstMatch(s) ==
  LET P == {p \in 1..Len(s) : MatchesAt(s, p)}
  IN MatchAt(s, CHOOSE p \in P : \A q \in P : p <= q)

\* an extraction that trims the text whether or not it holds a directive
ExtractDirectiveTrimming(aiText) ==
  IF ~HasMatch(aiText) THEN [text |-> trim(aiText), url |-> <<>>]
  ELSE LET m == FirstMatch(aiText)
           imagePrompt == trim(m.group)
           cleaned == trim(SubSeq(aiText, 1, m.from - 1)
                             \o SubSeq(aiText, m.to + 1, Len(aiText)))
       IN [text |-> IF cleaned = <<>>
                      THEN StrCaptionHead \o imagePrompt \o <<"\"">>
                      ELSE cleaned,
           url |-> generateImageURL(imagePrompt)]

\* the directive extraction of handleSendMessage, AIChat.jsx:388-406
ExtractDirective(aiText) ==
  IF ~HasMatch(aiText) THEN [text |-> aiText, url |-> <<>>]
  ELSE LET m == FirstMatch(aiText)
           imagePrompt == trim(m.group)
           cleaned == trim(SubSeq(aiText, 1, m.from - 1)
                             \o SubSeq(aiText, m.to + 1, Len(aiText)))
       IN [text |-> IF cleaned = <<>>
                      THEN StrCaptionHead \o imagePrompt \o <<"\"">>
                      ELSE cleaned,
           url |-> generateImageURL(imagePrompt)]

(* --------------------------- handleSendMessage ------------------------- *)
\* a guard that looks only at the submissions of the current conversation
SendRejectedPerConversation ==
  \/ trim(input) = <<>> /\ selectedImage = NoImage
  \/ \E s \in 1..MaxSlots : sub[s].pc # "idle" /\ sub[s].chatId = currentChatId

\* the guard of AIChat.jsx:257
SendRejected == (trim(input) = <<>> /\ selectedImage = NoImage) \/ isLoading

FreeSlot == CHOOSE s \in 1..MaxSlots :
              sub[s].pc = "idle" /\ \A r \in 1..(s - 1) : sub[r].pc # "idle"

\* the title derived from the first turn, AIChat.jsx:302-304
chatTitle(trimmedInput) ==
  IF Len(trimmedInput) > TitleLimit
    THEN SubSeq(trimmedInput, 1, TitleLimit) \o StrEllipsis
    ELSE IF trimmedInput # <<>> THEN trimmedInput ELSE StrImageChat

\* the preview text of a user turn, AIChat.jsx:284, 307, 314
TextOrImageTag(trimmedInput) ==
  IF trimmedInput # <<>> THEN trimmedInput ELSE StrImageTag

\* whether the captured view holds no turn but placeholders, AIChat.jsx:300-301
IsFirstMessage(msgs) == Len(SelectSeq(msgs, LAMBDA m : ~m.isWelcome)) = 0

\* formatHistoryForAPI, AIChat.jsx:211-217
formatHistoryForAPI(currentMessages) ==
  [k \in 1..Len(currentMessages) |->
     [role |-> IF currentMessages[k].sender = "user" THEN "user" ELSE "model",
      text |-> currentMessages[k].text]]

\* the contents of the text request, AIChat.jsx:356-359
TextContents(msgs, trimmedInput) ==
  formatHistoryForAPI(SelectSeq(msgs, LAMBDA m : ~m.hasImage)
                        \o <<[sender |-> "user", text |-> trimmedInput]>>)

\* the contents of the vision request, AIChat.jsx:335-346
VisionContents(image, trimmedInput) ==
  <<[role |-> "",
     text |-> IF trimmedInput # <<>> THEN trimmedInput ELSE StrWhatsInImage,
     inline_data |-> image]>>

\* the submission started by the code after the guard, AIChat.jsx:259-296,
\* from the values the handler closed over: it is suspended at createNewChat
\* (no current chat) or at the addDoc of the user turn
NewSubmission(chatId, text, image, msgs) ==
  IF chatId = NoChat
    THEN [IdleSub EXCEPT !.pc = "awaitNewChat", !.text = text, !.fresh = TRUE]
    ELSE [IdleSub EXCEPT !.pc = "awaitUserAdd", !.chatId = chatId,
                         !.text = text, !.image = image, !.msgs = msgs,
                         !.fresh = TRUE]

\* AIChat.jsx:257: the guard returns, nothing is done
SendRefused ==
  /\ SendRejected
  /\ UNCHANGED <<store, ui, side, sub, pendingNew, del, clr, budget, ledger>>

\* AIChat.jsx:259-296: the submission is accepted; it keeps the state the
\* handler closed over
SendAccepted ==
  /\ ~SendRejected
  /\ sends > 0 /\ \E s \in 1..MaxSlots : sub[s].pc = "idle"
  /\ sends' = sends - 1
  /\ input' = <<>> /\ isLoading' = TRUE
  /\ sub' = [sub EXCEPT ![FreeSlot] =
               NewSubmission(currentChatId, trim(input), selectedImage, messages)]
  /\ ledger' = IF currentChatId = NoChat THEN ledger
               ELSE Bump(currentChatId, "accepted")
  /\ UNCHANGED <<store, messages, currentChatId, selectedImage, msgSub,
                 lastSnap, side, pendingNew, del, clr, others, faults, dels>>

\* the synchronous part of handleSendMessage, AIChat.jsx:253-296
SendMessageBody == SendRefused \/ SendAccepted

\* a submit event of the input form, AIChat.jsx:840
HandleSendMessage == SendMessageBody /\ UNCHANGED <<timers, authTimer>>

\* isLoading, input and the other values a handler reads are those of the
\* render that created it (AIChat.jsx:31, 253-257). Until the component has
\* rendered again after an accepted submit, a further submit event runs the
\* handler of the earlier render: its guard sees the loading flag unset and
\* the input it saw before, and it starts a submission of its own.
SendStale ==
  \E s \in 1..MaxSlots :
    /\ sub[s].fresh
    /\ sends > 0 /\ \E r \in 1..MaxSlots : sub[r].pc = "idle"
    /\ sends' = sends - 1
    /\ sub' = [sub EXCEPT ![FreeSlot] =
                 NewSubmission(sub[s].chatId, sub[s].text, sub[s].image, sub[s].msgs)]
    /\ ledger' = IF sub[s].chatId = NoChat THEN ledger
                 ELSE Bump(sub[s].chatId, "accepted")
    /\ UNCHANGED <<store, ui, side, pendingNew, timers, authTimer, del, clr, others,
                   faults, dels>>

\* the component renders with the state set by the accepted submit
\* (AIChat.jsx:259-260): later events reach handlers that see it
Render ==
  /\ \E s \in 1..MaxSlots : sub[s].fresh
  /\ sub' = [s \in 1..MaxSlots |-> [sub[s] EXCEPT !.fresh = FALSE]]
  /\ UNCHANGED <<store, ui, side, pendingNew, timers, authTimer, del, clr, budget, ledger>>

\* what every later step of a submission leaves alone
SubFrame ==
  UNCHANGED <<nextChatId, messages, input, currentChatId, msgSub, lastSnap,
              side, pendingNew, timers, authTimer, del, clr, sends, others, dels>>

\* a finally block that leaves the loading flag set
FinishLeavesLoading(s) ==
  /\ isLoading' = isLoading
  /\ sub' = [sub EXCEPT ![s] = IdleSub]

\* the finally block, AIChat.jsx:466-468, and the early returns that reset
\* the loading flag
Finish(s) ==
  /\ isLoading' = FALSE
  /\ sub' = [sub EXCEPT ![s] = IdleSub]

\* a no-chat branch that leaves the input empty after the chat was created
SendNewChatResolveDroppingText(s) ==
  /\ sub[s].pc = "awaitNewChat" /\ ~sub[s].fresh
  /\ \/ /\ CreateChatOk /\ NewChatWrite
        /\ input' = <<>>
        /\ UNCHANGED faults
     \/ /\ ~CreateChatOk \/ MayFail
        /\ faults' = IF CreateChatOk THEN faults - 1 ELSE faults
        /\ UNCHANGED <<store, messages, input, currentChatId, msgSub, lastSnap>>
  /\ Finish(s)
  /\ UNCHANGED <<selectedImage, side, pendingNew, timers, authTimer, del, clr, sends,
                 others, dels, ledger>>

\* AIChat.jsx:264-276: createNewChat resolved for a submit without a chat
SendNewChatResolve(s) ==
  /\ sub[s].pc = "awaitNewChat" /\ ~sub[s].fresh
  /\ \/ /\ CreateChatOk /\ NewChatWrite
        /\ input' = sub[s].text
        /\ UNCHANGED faults
     \/ /\ ~CreateChatOk \/ MayFail
        /\ faults' = IF CreateChatOk THEN faults - 1 ELSE faults
        /\ UNCHANGED <<store, messages, input, currentChatId, msgSub, lastSnap>>
  /\ Finish(s)
  /\ UNCHANGED <<selectedImage, side, pendingNew, timers, authTimer, del, clr, sends,
                 others, dels, ledger>>

\* the user turn written by AIChat.jsx:282-296
UserTurn(id, t, p) ==
  MsgDoc(id, p.chatId, "user", TextOrImageTag(p.text), t, p.image, <<>>, FALSE)

\* a handler that goes on to the metadata update although the write of
\* the user turn failed
UserAddResolveIgnoringFailure(s) ==
  /\ sub[s].pc = "awaitUserAdd" /\ ~sub[s].fresh
  /\ \/ /\ msgDocs' = msgDocs \cup {UserTurn(nextMsgId, clock + 1, sub[s])}
        /\ nextMsgId' = nextMsgId + 1 /\ clock' = clock + 1
        /\ UNCHANGED faults
     \/ /\ MayFail /\ faults' = faults - 1
        /\ UNCHANGED <<msgDocs, nextMsgId, clock>>
  /\ sub' = [sub EXCEPT ![s].pc = "awaitUserMeta"]
  /\ SubFrame /\ UNCHANGED <<chatDocs, isLoading, selectedImage, ledger>>

\* AIChat.jsx:296: the addDoc of the user turn resolved
UserAddResolve(s) ==
  /\ sub[s].pc = "awaitUserAdd" /\ ~sub[s].fresh
  /\ \/ /\ msgDocs' = msgDocs \cup {UserTurn(nextMsgId, clock + 1, sub[s])}
        /\ nextMsgId' = nextMsgId + 1 /\ clock' = clock + 1
        /\ sub' = [sub EXCEPT ![s].pc = "awaitUserMeta"]
        /\ UNCHANGED <<chatDocs, isLoading, faults>>
     \/ /\ MayFail /\ faults' = faults - 1
        /\ Finish(s)
        /\ UNCHANGED <<chatDocs, msgDocs, nextMsgId, clock>>
  /\ SubFrame /\ UNCHANGED <<selectedImage, ledger>>

\* the metadata patch after the user turn, AIChat.jsx:299-318
UserPatch(doc, p, t) ==
  IF IsFirstMessage(p.msgs)
    THEN [doc EXCEPT !.title = chatTitle(p.text),
                     !.lastMessage = TextOrImageTag(p.text),
                     !.lastSender = "user", !.updatedAt = t]
    ELSE [doc EXCEPT !.lastMessage = TextOrImageTag(p.text),
                     !.lastSender = "user", !.updatedAt = t]

\* AIChat.jsx:326-375: the request is built and fetchWithRetries is called
StartFetch(p) ==
  IF p.image # NoImage
    THEN [p EXCEPT !.pc = "fetch", !.i = 0, !.url = "vision",
                   !.contents = VisionContents(p.image, p.text)]
    ELSE [p EXCEPT !.pc = "fetch", !.i = 0, !.url = "chat",
                   !.contents = TextContents(p.msgs, p.text)]

\* the same step without the handleRemoveImage() of AIChat.jsx:353
UserMetaResolveKeepingImage(s) ==
  LET c == sub[s].chatId
  IN /\ sub[s].pc = "awaitUserMeta"
     /\ \/ /\ c \in DOMAIN chatDocs
           /\ chatDocs' = [chatDocs EXCEPT ![c] = UserPatch(@, sub[s], clock + 1)]
           /\ clock' = clock + 1
           /\ sub' = [sub EXCEPT ![s] = StartFetch(@)]
           /\ UNCHANGED <<isLoading, faults, selectedImage>>
        \/ /\ c \notin DOMAIN chatDocs \/ MayFail
           /\ faults' = IF c \in DOMAIN chatDocs THEN faults - 1 ELSE faults
           /\ Finish(s)
           /\ UNCHANGED <<chatDocs, clock, selectedImage>>
     /\ SubFrame /\ UNCHANGED <<msgDocs, nextMsgId, ledger>>

\* AIChat.jsx:305-318: the updateDoc after the user turn resolved (it fails
\* when the chat document no longer exists)
UserMetaResolve(s) ==
  LET c == sub[s].chatId
  IN /\ sub[s].pc = "awaitUserMeta"
     /\ \/ /\ c \in DOMAIN chatDocs
           /\ chatDocs' = [chatDocs EXCEPT ![c] = UserPatch(@, sub[s], clock + 1)]
           /\ clock' = clock + 1
           /\ sub' = [sub EXCEPT ![s] = StartFetch(@)]
           /\ selectedImage' = IF sub[s].image # NoImage THEN NoImage
                               ELSE selectedImage
           /\ UNCHANGED <<isLoading, faults>>
        \/ /\ c \notin DOMAIN chatDocs \/ MayFail
           /\ faults' = IF c \in DOMAIN chatDocs THEN faults - 1 ELSE faults
           /\ Finish(s)
           /\ UNCHANGED <<chatDocs, clock, selectedImage>>
     /\ SubFrame /\ UNCHANGED <<msgDocs, nextMsgId, ledger>>
(* --------------------------- fetchWithRetries -------------------------- *)
\* what one fetch may give: a response with a status, or a network failure
\* (the promise rejects)
Resp(st) == [net |-> FALSE, status |-> st]
NetFail == [net |-> TRUE, status |-> 0]
Responses == {Resp(200), Resp(404), Resp(500), NetFail}

\* response.ok
ResponseOk(r) == ~r.net /\ r.status >= 200 /\ r.status <= 299

DigitChar(d) == <<"0", "1", "2", "3", "4", "5", "6", "7", "8", "9">>[d + 1]

RECURSIVE Digits(_)
Digits(n) == IF n < 10 THEN <<DigitChar(n)>>
             ELSE Digits(n \div 10) \o <<DigitChar(n % 10)>>

\* the message of the error thrown in the try block, AIChat.jsx:228-234
ErrorMessage(r) ==
  IF r.net THEN StrFailedToFetch
  ELSE IF r.status < 500 THEN StrClientError \o Digits(r.status)
  ELSE StrServerError \o Digits(r.status)

\* a test that lets the last pass retry as well
ShouldRetryOnceMore(i) == i < retries

\* the catch block's test, AIChat.jsx:237
ShouldRetry(i) == i < retries - 1

\* an exponent that is off by one
BackoffDelayOffByOne(i) == (2 ^ (i + 1)) * 1000

\* AIChat.jsx:238
BackoffDelay(i) == (2 ^ i) * 1000

\* candidate texts the backend may return; <<>> stands for a result without
\* a candidate text
BodyPlain == <<"o", "k">>
BodyImage == <<"H", "i", " ", "[", "I", "M", "A", "G", "E", "_", "R", "E", "Q", "U", "E", "S", "T", ":", " ", "f", "o", "x", "]">>
Bodies == {<<>>, BodyPlain, BodyImage}

\* AIChat.jsx:377-423: the response is parsed and the assistant turn is
\* handed to addDoc
StartAiAdd(p, body) ==
  LET raw == IF body # <<>> THEN body ELSE StrSorry
      ex == ExtractDirective(raw)
  IN [p EXCEPT !.pc = "awaitAiAdd", !.rawText = raw, !.aiText = ex.text,
               !.imageUrl = ex.url]

\* AIChat.jsx:440-454: the outer catch hands the error turn to addDoc
StartErrAdd(p, message) == [p EXCEPT !.pc = "awaitErrAdd", !.err = message]

\* one pass of the loop of fetchWithRetries, AIChat.jsx:221-244: the fetch
\* of attempt i resolved with r (and, if r is ok, candidate text body).
\* Every error thrown in the try block, the
\* client error included, is caught by the catch block of the same pass.
FetchAttempt(s, r, body) ==
  /\ sub[s].pc = "fetch"
  /\ LET p == [sub[s] EXCEPT !.reqLog = Append(@, r)]
     IN IF ResponseOk(r)
          THEN sub' = [sub EXCEPT ![s] = StartAiAdd(p, body)]
          ELSE IF ShouldRetry(p.i)
            THEN sub' = [sub EXCEPT ![s] =
                           [p EXCEPT !.pc = "sleep", !.err = ErrorMessage(r),
                                     !.delays = Append(@, BackoffDelay(p.i))]]
            ELSE sub' = [sub EXCEPT ![s] = StartErrAdd(p, ErrorMessage(r))]
  /\ SubFrame
  /\ UNCHANGED <<chatDocs, msgDocs, clock, nextMsgId, isLoading, selectedImage,
                 faults, ledger>>

\* AIChat.jsx:240 and 221: the backoff timer fired, the loop goes on
FetchWake(s) ==
  /\ sub[s].pc = "sleep"
  /\ sub' = [sub EXCEPT ![s].pc = "fetch", ![s].i = @ + 1]
  /\ SubFrame
  /\ UNCHANGED <<chatDocs, msgDocs, clock, nextMsgId, isLoading, selectedImage,
                 faults, ledger>>

(* ------------------- the assistant turn and the error turn ------------- *)
\* an assistant turn stored under the user's name
AiTurnAsUser(id, t, p) ==
  MsgDoc(id, p.chatId, "user", p.aiText, t, NoImage, p.imageUrl, FALSE)

\* an assistant turn that carries the image of the user's turn as well
AiTurnWithUserImage(id, t, p) ==
  MsgDoc(id, p.chatId, "ai", p.aiText, t, p.image, p.imageUrl, FALSE)

\* an assistant turn stored in the conversation that is active when it is
\* written
AiTurnInActiveChat(id, t, p) ==
  MsgDoc(id, currentChatId, "ai", p.aiText, t, NoImage, p.imageUrl, FALSE)

\* AIChat.jsx:410-421
AiTurn(id, t, p) ==
  MsgDoc(id, p.chatId, "ai", p.aiText, t, NoImage, p.imageUrl, FALSE)

\* an error turn that does not carry the error flag
ErrTurnUnflagged(id, t, p) ==
  MsgDoc(id, p.chatId, "ai", StrErrHead \o p.err \o StrErrTail, t, NoImage,
         <<>>, FALSE)

\* AIChat.jsx:448-454
ErrTurn(id, t, p) ==
  [MsgDoc(id, p.chatId, "ai", StrErrHead \o p.err \o StrErrTail, t, NoImage,
          <<>>, FALSE) EXCEPT !.isError = TRUE]

\* AIChat.jsx:428-432
AiPatch(doc, p, t) ==
  [doc EXCEPT !.lastMessage = IF p.imageUrl # <<>>
                                THEN p.aiText \o <<" ">> \o StrImageTag
                                ELSE p.aiText,
              !.lastSender = "ai", !.updatedAt = t]

\* AIChat.jsx:458-462
ErrPatch(doc, t) ==
  [doc EXCEPT !.lastMessage = StrErrorOccurred, !.lastSender = "ai",
              !.updatedAt = t]

\* AIChat.jsx:423: the addDoc of the assistant turn resolved
AiAddResolve(s) ==
  /\ sub[s].pc = "awaitAiAdd"
  /\ \/ /\ msgDocs' = msgDocs \cup {AiTurn(nextMsgId, clock + 1, sub[s])}
        /\ nextMsgId' = nextMsgId + 1 /\ clock' = clock + 1
        /\ sub' = [sub EXCEPT ![s].pc = "awaitAiMeta"]
        /\ UNCHANGED faults
     \/ /\ MayFail /\ faults' = faults - 1
        /\ sub' = [sub EXCEPT ![s] = StartErrAdd(@, StrWriteFailed)]
        /\ UNCHANGED <<msgDocs, nextMsgId, clock>>
  /\ SubFrame
  /\ UNCHANGED <<chatDocs, isLoading, selectedImage, ledger>>

\* AIChat.jsx:428-438, 466-468: the updateDoc after the assistant turn
\* resolved; on success the submission ends through the finally block
AiMetaResolve(s) ==
  LET c == sub[s].chatId
  IN /\ sub[s].pc = "awaitAiMeta"
     /\ \/ /\ c \in DOMAIN chatDocs
           /\ chatDocs' = [chatDocs EXCEPT ![c] = AiPatch(@, sub[s], clock + 1)]
           /\ clock' = clock + 1
           /\ Finish(s)
           /\ ledger' = Bump(c, "succeeded")
           /\ UNCHANGED faults
        \/ /\ c \notin DOMAIN chatDocs \/ MayFail
           /\ faults' = IF c \in DOMAIN chatDocs THEN faults - 1 ELSE faults
           /\ sub' = [sub EXCEPT ![s] =
                        StartErrAdd(@, IF c \in DOMAIN chatDocs
                                         THEN StrWriteFailed ELSE StrNotFound)]
           /\ UNCHANGED <<chatDocs, clock, isLoading, ledger>>
     /\ SubFrame /\ UNCHANGED <<msgDocs, nextMsgId, selectedImage>>

\* the same step with a failure of the addDoc that is not caught around the
\* updateDoc: the handler goes on to the metadata update
ErrAddResolveContinuing(s) ==
  /\ sub[s].pc = "awaitErrAdd"
  /\ \/ /\ msgDocs' = msgDocs \cup {ErrTurn(nextMsgId, clock + 1, sub[s])}
        /\ nextMsgId' = nextMsgId + 1 /\ clock' = clock + 1
        /\ UNCHANGED faults
     \/ /\ MayFail /\ faults' = faults - 1
        /\ UNCHANGED <<msgDocs, nextMsgId, clock>>
  /\ sub' = [sub EXCEPT ![s].pc = "awaitErrMeta"]
  /\ SubFrame /\ UNCHANGED <<chatDocs, isLoading, selectedImage, ledger>>

\* AIChat.jsx:448-454, 463-468: the addDoc of the error turn resolved; its
\* failure is swallowed
ErrAddResolve(s) ==
  /\ sub[s].pc = "awaitErrAdd"
  /\ \/ /\ msgDocs' = msgDocs \cup {ErrTurn(nextMsgId, clock + 1, sub[s])}
        /\ nextMsgId' = nextMsgId + 1 /\ clock' = clock + 1
        /\ sub' = [sub EXCEPT ![s].pc = "awaitErrMeta"]
        /\ UNCHANGED <<isLoading, faults>>
     \/ /\ MayFail /\ faults' = faults - 1
        /\ Finish(s)
        /\ UNCHANGED <<msgDocs, nextMsgId, clock>>
  /\ SubFrame /\ UNCHANGED <<chatDocs, selectedImage, ledger>>

\* AIChat.jsx:458-468: the updateDoc after the error turn resolved
ErrMetaResolve(s) ==
  LET c == sub[s].chatId
  IN /\ sub[s].pc = "awaitErrMeta"
     /\ \/ /\ c \in DOMAIN chatDocs
           /\ chatDocs' = [chatDocs EXCEPT ![c] = ErrPatch(@, clock + 1)]
           /\ clock' = clock + 1
           /\ UNCHANGED faults
        \/ /\ c \notin DOMAIN chatDocs \/ MayFail
           /\ faults' = IF c \in DOMAIN chatDocs THEN faults - 1 ELSE faults
           /\ UNCHANGED <<chatDocs, clock>>
     /\ Finish(s)
     /\ SubFrame /\ UNCHANGED <<msgDocs, nextMsgId, selectedImage, ledger>>

(* ----------------------------- regenerate ------------------------------ *)
\* the user turns of the view, AIChat.jsx:522
UserMessages(msgs) == SelectSeq(msgs, LAMBDA m : m.sender = "user" /\ ~m.isWelcome)

\* regenerateResponse, AIChat.jsx:518-535: refused, or the input is set to
\* the last user text and a 100 ms timer is started
RegenerateResponse ==
  \/ /\ isLoading \/ Len(UserMessages(messages)) = 0
     /\ UNCHANGED <<store, ui, side, sub, pendingNew, timers, authTimer, del, clr, budget,
                    ledger>>
  \/ /\ ~isLoading /\ Len(UserMessages(messages)) > 0
     /\ timers < MaxTimers
     /\ input' = UserMessages(messages)[Len(UserMessages(messages))].text
     /\ timers' = timers + 1
     /\ UNCHANGED <<store, messages, isLoading, currentChatId, selectedImage,
                    msgSub, lastSnap, side, sub, pendingNew, authTimer, del,
                    clr, budget, ledger>>

\* AIChat.jsx:529-534: the timer dispatches a submit event to the form
RegenTimerFire ==
  /\ timers > 0 /\ timers' = timers - 1
  /\ SendMessageBody /\ UNCHANGED authTimer

(* --------------------------- another client ---------------------------- *)
StrOther == <<"y", "o">>

\* a turn appended to an existing conversation by another tab or device
OtherClientAppend(c, sender) ==
  /\ others > 0 /\ others' = others - 1
  /\ c \in DOMAIN chatDocs
  /\ msgDocs' = msgDocs \cup
       {MsgDoc(nextMsgId, c, sender, StrOther, clock + 1, NoImage, <<>>, FALSE)}
  /\ nextMsgId' = nextMsgId + 1 /\ clock' = clock + 1
  /\ ledger' = Touch({c})
  /\ UNCHANGED <<chatDocs, nextChatId, ui, side, sub, pendingNew, timers, authTimer, del,
                 clr, sends, faults, dels>>
(* --------------------------- handleDeleteChat -------------------------- *)
Rows == {chats[k].id : k \in 1..Len(chats)}

Without(D, C) == [x \in (DOMAIN D) \ C |-> D[x]]

DelFrame ==
  UNCHANGED <<nextChatId, nextMsgId, ui, side, sub, timers, authTimer, clr, sends, others,
              dels>>

\* handleDeleteChat, ChatHistory.jsx:61-72, on a row of the sidebar: the
\* confirmation is declined, or the first page query is issued
HandleDeleteChat(c) ==
  /\ c \in Rows
  /\ \/ UNCHANGED vars
     \/ /\ del.pc \in {"idle", "done", "failed"} /\ dels > 0
        /\ dels' = dels - 1
        /\ del' = [IdleDel EXCEPT !.pc = "query", !.chatId = c,
                                  !.cur = currentChatId]
        /\ UNCHANGED <<store, ui, side, sub, pendingNew, timers, authTimer, clr, sends,
                       others, faults, ledger>>

\* ChatHistory.jsx:71-75: getDocs of one page resolved
DelQueryResolve ==
  /\ del.pc = "query"
  /\ \/ LET snapshot == LimitQuery(del.chatId, batchSize)
        IN /\ del' = IF snapshot = {} THEN [del EXCEPT !.pc = "deleteDoc"]
                     ELSE [del EXCEPT !.pc = "commit", !.batch = snapshot]
           /\ UNCHANGED faults
     \/ /\ MayFail /\ faults' = faults - 1
        /\ del' = [del EXCEPT !.pc = "failed"]
  /\ DelFrame /\ UNCHANGED <<chatDocs, msgDocs, clock, pendingNew, ledger>>

\* ChatHistory.jsx:76-78: batch.commit of one page resolved
DelCommitResolve ==
  /\ del.pc = "commit"
  /\ \/ /\ msgDocs' = {m \in msgDocs : m.id \notin del.batch}
        /\ clock' = clock + 1
        /\ del' = [del EXCEPT !.pages = Append(@, Cardinality(del.batch)),
                              !.batch = {},
                              !.pc = IF Cardinality(del.batch) < batchSize
                                       THEN "deleteDoc" ELSE "query"]
        /\ ledger' = Touch({del.chatId})
        /\ UNCHANGED faults
     \/ /\ MayFail /\ faults' = faults - 1
        /\ del' = [del EXCEPT !.pc = "failed"]
        /\ UNCHANGED <<msgDocs, clock, ledger>>
  /\ DelFrame /\ UNCHANGED <<chatDocs, pendingNew>>

\* ChatHistory.jsx:81-85: deleteDoc of the chat resolved; onNewChat is
\* called if the chat was the current one when the handler was created
DelDocResolve ==
  /\ del.pc = "deleteDoc"
  /\ \/ /\ chatDocs' = Without(chatDocs, {del.chatId})
        /\ clock' = clock + 1
        /\ pendingNew' = IF del.chatId = del.cur THEN pendingNew + 1
                         ELSE pendingNew
        /\ del' = [del EXCEPT !.pc = "done"]
        /\ UNCHANGED faults
     \/ /\ MayFail /\ faults' = faults - 1
        /\ del' = [del EXCEPT !.pc = "failed"]
        /\ UNCHANGED <<chatDocs, clock, pendingNew>>
  /\ DelFrame /\ UNCHANGED <<msgDocs, ledger>>

(* ------------------------- the sidebar's view -------------------------- *)
UpperCase == <<"A", "B", "C", "D", "E", "F", "G", "H", "I", "J", "K", "L", "M", "N", "O", "P", "Q", "R", "S", "T", "U", "V", "W", "X", "Y", "Z">>
LowerCase == <<"a", "b", "c", "d", "e", "f", "g", "h", "i", "j", "k", "l", "m", "n", "o", "p", "q", "r", "s", "t", "u", "v", "w", "x", "y", "z">>

\* a conversion that leaves every letter as it is
toLowerCaseKeeping(s) == s

\* String.prototype.toLowerCase
toLowerCase(s) ==
  [k \in 1..Len(s) |->
     IF \E i \in 1..Len(UpperCase) : UpperCase[i] = s[k]
       THEN LowerCase[CHOOSE i \in 1..Len(UpperCase) : UpperCase[i] = s[k]]
       ELSE s[k]]

\* String.prototype.includes
includes(s, p) == \E k \in 1..(Len(s) + 1) : StartsAt(s, p, k)

categories == <<"all", "work", "personal", "learning", "other">>

\* the predicate of chats.filter, ChatHistory.jsx:198-202
MatchesFilter(chat) ==
  /\ includes(toLowerCase(chat.title), toLowerCase(searchQuery))
  /\ selectedCategory = "all" \/ chat.category = selectedCategory

filteredChats == SelectSeq(chats, MatchesFilter)

\* a comparator that puts the unpinned rows first
ComparePinnedReversed(a, b) ==
  IF a.pinned /\ ~b.pinned THEN 1
  ELSE IF ~a.pinned /\ b.pinned THEN 0 - 1
  ELSE 0

\* the comparator of the sort, ChatHistory.jsx:205-209
ComparePinned(a, b) ==
  IF a.pinned /\ ~b.pinned THEN 0 - 1
  ELSE IF ~a.pinned /\ b.pinned THEN 1
  ELSE 0

\* an insertion that puts x before the rows it compares equal to
RECURSIVE InsertRowBeforeEquals(_, _)
InsertRowBeforeEquals(sorted, x) ==
  IF sorted # <<>> /\ ComparePinned(x, sorted[Len(sorted)]) <= 0
    THEN Append(InsertRowBeforeEquals(SubSeq(sorted, 1, Len(sorted) - 1), x),
                sorted[Len(sorted)])
    ELSE Append(sorted, x)

\* Array.prototype.sort is stable: x goes behind every element it does not
\* have to precede
RECURSIVE InsertRow(_, _)
InsertRow(sorted, x) ==
  IF sorted # <<>> /\ ComparePinned(x, sorted[Len(sorted)]) < 0
    THEN Append(InsertRow(SubSeq(sorted, 1, Len(sorted) - 1), x),
                sorted[Len(sorted)])
    ELSE Append(sorted, x)

RECURSIVE SortRows(_)
SortRows(rows) ==
  IF rows = <<>> THEN <<>>
  ELSE InsertRow(SortRows(SubSeq(rows, 1, Len(rows) - 1)), rows[Len(rows)])

sortedChats == SortRows(filteredChats)

\* the rows on screen
Shown == {sortedChats[k].id : k \in 1..Len(sortedChats)}

\* chats.find(c => c.id === chatId)
FindRow(c) == chats[CHOOSE k \in 1..Len(chats) : chats[k].id = c]

(* -------------------------- handleClearAllChats ------------------------ *)
ClrFrame ==
  UNCHANGED <<nextChatId, nextMsgId, ui, chats, panel, sub, timers, authTimer, del, sends,
              others, dels>>

\* the end of the inner loop for chatIds[k]: the next id, or the first
\* batch of record deletions (ChatHistory.jsx:115, 146-154)
NextChat(p) ==
  IF p.k < Len(p.chatIds) THEN [p EXCEPT !.pc = "query", !.k = @ + 1]
  ELSE [p EXCEPT !.pc = "chatBatch", !.i = 0]

\* a clearing that starts on the ids of the rows on screen
ClearStartsOnView ==
  /\ dels > 0 /\ dels' = dels - 1
  /\ LET chatIds == [k \in 1..Len(sortedChats) |-> sortedChats[k].id]
     IN IF Len(chatIds) = 0
          THEN /\ clr' = [IdleClr EXCEPT !.pc = "done", !.since = clock]
               /\ pendingNew' = pendingNew + 1
               /\ UNCHANGED isClearing
          ELSE /\ clr' = [IdleClr EXCEPT !.pc = "query", !.chatIds = chatIds,
                                         !.k = 1, !.since = clock]
               /\ isClearing' = TRUE
               /\ UNCHANGED pendingNew
  /\ UNCHANGED <<store, ui, chats, panel, sub, timers, authTimer, del, sends,
                 others, faults, ledger>>

\* ChatHistory.jsx:101-122: the clearing starts on the ids of the sidebar's
\* list; with an empty list the handler runs to its end without an await
ClearStarts ==
  /\ dels > 0 /\ dels' = dels - 1
  /\ LET chatIds == [k \in 1..Len(chats) |-> chats[k].id]
     IN IF Len(chatIds) = 0
          THEN /\ clr' = [IdleClr EXCEPT !.pc = "done", !.since = clock]
               /\ pendingNew' = pendingNew + 1
               /\ UNCHANGED isClearing
          ELSE /\ clr' = [IdleClr EXCEPT !.pc = "query", !.chatIds = chatIds,
                                         !.k = 1, !.since = clock]
               /\ isClearing' = TRUE
               /\ UNCHANGED pendingNew
  /\ UNCHANGED <<store, ui, chats, panel, sub, timers, authTimer, del, sends, others,
                 faults, ledger>>

\* a handler that does not ask a second time
HandleClearAllChatsAskingOnce(first, second) ==
  IF isClearing \/ ~first
    THEN UNCHANGED <<store, ui, side, sub, pendingNew, timers, authTimer, del, clr, budget,
                     ledger>>
    ELSE ClearStarts

\* handleClearAllChats, ChatHistory.jsx:91-122, with the answers to its two
\* window.confirm calls: refused while clearing, declined at one of the two
\* confirmations, or started
HandleClearAllChats(first, second) ==
  IF isClearing \/ ~first \/ ~second
    THEN UNCHANGED <<store, ui, side, sub, pendingNew, timers, authTimer, del, clr, budget,
                     ledger>>
    ELSE ClearStarts

\* a failure that is swallowed inside the loop: the handler goes on with the
\* next conversation
ClrFailSwallowed ==
  /\ MayFail /\ faults' = faults - 1
  /\ clr' = NextChat([clr EXCEPT !.batch = {}])
  /\ UNCHANGED isClearing

\* ChatHistory.jsx:163-169: the catch and finally blocks
ClrFail ==
  /\ MayFail /\ faults' = faults - 1
  /\ clr' = [clr EXCEPT !.pc = "failed"]
  /\ isClearing' = FALSE

\* ChatHistory.jsx:121-127: getDocs of one page resolved
ClrQueryResolve ==
  /\ clr.pc = "query"
  /\ \/ LET snapshot == LimitQuery(clr.chatIds[clr.k], batchSize)
        IN /\ clr' = IF snapshot = {} THEN NextChat(clr)
                     ELSE [clr EXCEPT !.pc = "commit", !.batch = snapshot]
           /\ UNCHANGED <<faults, isClearing>>
     \/ ClrFail
  /\ ClrFrame /\ UNCHANGED <<chatDocs, msgDocs, clock, pendingNew, ledger>>

\* ChatHistory.jsx:129-138: batch.commit of one page resolved
ClrCommitResolve ==
  /\ clr.pc = "commit"
  /\ \/ /\ msgDocs' = {m \in msgDocs : m.id \notin clr.batch}
        /\ clock' = clock + 1
        /\ clr' = IF Cardinality(clr.batch) < batchSize
                    THEN NextChat([clr EXCEPT !.batch = {},
                                     !.pages = Append(@, Cardinality(clr.batch))])
                    ELSE [clr EXCEPT !.pc = "query", !.batch = {},
                                     !.pages = Append(@, Cardinality(clr.batch))]
        /\ ledger' = Touch({clr.chatIds[clr.k]})
        /\ UNCHANGED <<faults, isClearing>>
     \/ ClrFail /\ UNCHANGED <<msgDocs, clock, ledger>>
  /\ ClrFrame /\ UNCHANGED <<chatDocs, pendingNew>>

\* a record batch over the conversations the store holds now
BatchOfStoredChats(p) == DOMAIN chatDocs

\* a record batch of all the ids that are left
BatchChatIdsUnsliced(p) == {p.chatIds[j] : j \in (p.i + 1)..Len(p.chatIds)}

\* the ids of one record batch, ChatHistory.jsx:147
BatchChatIds(p) ==
  {p.chatIds[j] : j \in (p.i + 1)..(IF p.i + maxBatchSize < Len(p.chatIds)
                                      THEN p.i + maxBatchSize
                                      ELSE Len(p.chatIds))}

\* ChatHistory.jsx:146-162, 167-169: chatBatch.commit resolved; after the
\* last batch onNewChat is called and the clearing flag is reset
ClrChatBatchResolve ==
  /\ clr.pc = "chatBatch"
  /\ \/ /\ chatDocs' = Without(chatDocs, BatchChatIds(clr))
        /\ clock' = clock + 1
        /\ LET p == [clr EXCEPT !.i = @ + maxBatchSize,
                                !.recs = Append(@, Cardinality(BatchChatIds(clr)))]
           IN IF p.i < Len(p.chatIds)
                THEN clr' = p /\ UNCHANGED <<pendingNew, isClearing>>
                ELSE /\ clr' = [p EXCEPT !.pc = "done"]
                     /\ pendingNew' = pendingNew + 1
                     /\ isClearing' = FALSE
        /\ UNCHANGED faults
     \/ ClrFail /\ UNCHANGED <<chatDocs, clock, pendingNew>>
  /\ ClrFrame /\ UNCHANGED <<msgDocs, ledger>>

(* --------------------------- specifications ---------------------------- *)
\* the steps of a running submission on which the backend answers
SendOkSteps(R, B) ==
  \E s \in 1..MaxSlots :
    \/ SendNewChatResolve(s)
    \/ UserAddResolve(s)
    \/ UserMetaResolve(s)
    \/ \E r \in R, body \in B : FetchAttempt(s, r, body)
    \/ AiAddResolve(s)
    \/ AiMetaResolve(s)

\* the steps taken when the backend or a store write fails
SendErrSteps ==
  \E s \in 1..MaxSlots :
    \/ ErrAddResolve(s)
    \/ ErrMetaResolve(s)

SendWake == \E s \in 1..MaxSlots : FetchWake(s)

\* The retrying HTTP client inside a submission: every store call succeeds,
\* the backend answers each attempt with any of Responses.
InitFetch == Start(FetchSends, 0, 0, 0)

NextFetch ==
  \/ \E t \in {TextHi, TextLong} : TypeInput(t)
  \/ HandleImageSelect
  \/ CreateNewChatResolve
  \/ MessagesSnapshot
  \/ HandleSendMessage
  \/ Render
  \/ SendOkSteps(Responses, {BodyPlain})
  \/ SendWake
  \/ SendErrSteps

SpecFetch == InitFetch /\ [][NextFetch]_vars

\* Switching between conversations: two texts, an image, new chats, the
\* sidebar and the live view; the backend answers every request.
InitSwitch == Start(MaxSends, 0, 0, 0)

NextSwitch ==
  \/ \E t \in {TextHi, TextLong} : TypeInput(t)
  \/ HandleImageSelect
  \/ CreateNewChatResolve
  \/ HandleNewChat
  \/ \E c \in ChatIds : HandleSelectChat(c)
  \/ MessagesSnapshot
  \/ ChatsSnapshot
  \/ HandleSendMessage
  \/ Render
  \/ SendOkSteps({Resp(200)}, {BodyPlain})

SpecSwitch == InitSwitch /\ [][NextSwitch]_vars

\* The live view of a conversation that this client and another client
\* append to.
InitView == Start(ViewSends, MaxOther, 0, 0)

NextView ==
  \/ TypeInput(TextHi)
  \/ CreateNewChatResolve
  \/ HandleNewChat
  \/ \E c \in ChatIds : HandleSelectChat(c)
  \/ MessagesSnapshot
  \/ ChatsSnapshot
  \/ HandleSendMessage
  \/ Render
  \/ SendOkSteps({Resp(200)}, {BodyPlain})
  \/ \E c \in ChatIds, sender \in {"user", "ai"} : OtherClientAppend(c, sender)

SpecView == InitView /\ [][NextView]_vars

\* the steps of the two deletion handlers
DeleteSteps ==
  \/ DelQueryResolve
  \/ DelCommitResolve
  \/ DelDocResolve

ClearSteps ==
  \/ ClrQueryResolve
  \/ ClrCommitResolve
  \/ ClrChatBatchResolve

\* Deletion racing with a submission: the sidebar, a single delete or a
\* clear-all, and the chat created afterwards.
InitRace == Start(RaceSends, 0, 0, RaceDeletes)

NextRace ==
  \/ TypeInput(TextHi)
  \/ CreateNewChatResolve
  \/ MessagesSnapshot
  \/ ChatsSnapshot
  \/ HandleSendMessage
  \/ Render
  \/ SendOkSteps({Resp(200)}, {BodyPlain})
  \/ SendErrSteps
  \/ \E c \in ChatIds : HandleDeleteChat(c)
  \/ DeleteSteps
  \/ \E first, second \in BOOLEAN : HandleClearAllChats(first, second)
  \/ ClearSteps

SpecRace == InitRace /\ [][NextRace]_vars

\* Deleting one long conversation: the store holds a conversation of n
\* turns, shown in the sidebar and selected.
StoredTurn(k) ==
  MsgDoc(k, 1, IF k % 2 = 1 THEN "user" ELSE "ai", TextHi, k + 1, NoImage,
         <<>>, FALSE)

InitDelete ==
  \E n \in TurnCounts :
    /\ chatDocs = (1 :> [NewChatDoc(1) EXCEPT !.title = trim(TextHi),
                                              !.lastMessage = TextHi,
                                              !.lastSender = "ai",
                                              !.updatedAt = n + 1])
    /\ msgDocs = {StoredTurn(k) : k \in 1..n}
    /\ clock = n + 1 /\ nextChatId = 2 /\ nextMsgId = n + 1
    /\ messages = <<>> /\ input = <<>> /\ isLoading = FALSE
    /\ currentChatId = 1 /\ selectedImage = NoImage
    /\ msgSub = "new" /\ lastSnap = <<>>
    /\ chats = <<[id |-> 1, title |-> trim(TextHi), pinned |-> FALSE,
                  category |-> "personal"]>>
    /\ isClearing = FALSE
    /\ searchQuery = <<>> /\ selectedCategory = "all"
    /\ patches = {} /\ edits = 0
    /\ sub = [s \in 1..MaxSlots |-> IdleSub]
    /\ pendingNew = 0 /\ timers = 0 /\ authTimer = 0
    /\ del = IdleDel /\ clr = IdleClr
    /\ sends = 0 /\ others = 0 /\ faults = 0 /\ dels = LongDeletes
    /\ ledger = [c \in ChatIds |-> NoLedger]

NextDelete ==
  \/ TypeInput(TextHi)
  \/ HandleImageSelect
  \/ CreateNewChatResolve
  \/ ChatsSnapshot
  \/ \E c \in ChatIds : HandleDeleteChat(c)
  \/ DeleteSteps

SpecDelete == InitDelete /\ [][NextDelete]_vars

\* every step of submission s, with the answers R the backend may give
SubStep(s, R) ==
  \/ SendNewChatResolve(s)
  \/ UserAddResolve(s)
  \/ UserMetaResolve(s)
  \/ \E r \in R : FetchAttempt(s, r, BodyPlain)
  \/ FetchWake(s)
  \/ AiAddResolve(s)
  \/ AiMetaResolve(s)
  \/ ErrAddResolve(s)
  \/ ErrMetaResolve(s)

\* Failing calls: one store call may fail (a write of a turn, a metadata
\* update, createNewChat, or the message listener), the backend may fail.
\* Every pending call of a submission returns in the end, and so does the
\* render after an accepted submit.
InitFault == Start(FaultSends, 0, MaxFaults, 0)

NextFault ==
  \/ TypeInput(TextHi)
  \/ CreateNewChatResolve
  \/ MessagesSnapshot
  \/ MessagesSnapshotError
  \/ HandleSendMessage
  \/ Render
  \/ SendOkSteps({Resp(200), Resp(500)}, {BodyPlain})
  \/ SendWake
  \/ SendErrSteps

SpecFault ==
  /\ InitFault /\ [][NextFault]_vars
  /\ WF_vars(Render)
  /\ \A s \in 1..MaxSlots : WF_vars(SubStep(s, {Resp(200), Resp(500)}))

\* The engine in one conversation: typing, attaching an image, submit
\* events, regeneration, a backend that may fail, and the live view.
Init == Start(MaxSends, 0, 0, 0)

Next ==
  \/ TypeInput(TextHi)
  \/ HandleImageSelect
  \/ CreateNewChatResolve
  \/ MessagesSnapshot
  \/ HandleSendMessage
  \/ SendStale
  \/ Render
  \/ SendOkSteps({Resp(200), Resp(500)}, {BodyPlain})
  \/ SendWake
  \/ SendErrSteps
  \/ RegenerateResponse
  \/ RegenTimerFire

Spec == Init /\ [][Next]_vars

(* ------------------------- the HTTP client's claims -------------------- *)
IsClientError(r) == ~r.net /\ r.status >= 400 /\ r.status < 500
IsTransient(r) == r.net \/ r.status >= 500

\* the fetchWithRetries call of submission s has returned or thrown
FetchEnded(s) == sub[s].pc \in {"awaitAiAdd", "awaitAiMeta", "awaitErrAdd", "awaitErrMeta"}
FetchThrew(s) == sub[s].pc \in {"awaitErrAdd", "awaitErrMeta"}

\* C2: a call whose first response is a 4xx has made exactly one request,
\* has taken no backoff delay and has already surfaced the client error.
C2_ClientErrorNotRetried ==
  \A s \in 1..MaxSlots :
    (sub[s].reqLog # <<>> /\ IsClientError(sub[s].reqLog[1]))
      => /\ Len(sub[s].reqLog) = 1
         /\ sub[s].delays = <<>>
         /\ FetchThrew(s)

\* the delays 1 s, 2 s, ... before attempts 1, 2, ...
ExpectedDelays(n) == [k \in 1..n |-> (2 ^ (k - 1)) * 1000]

\* C3: a call that met only transient failures (status >= 500 or a network
\* failure) makes at most 3 requests, has waited 1 s after the first and 2 s
\* after the second and nothing after the third, and ends only after the
\* third request, by throwing that request's error.
C3_TransientRetriedThreeTimes ==
  \A s \in 1..MaxSlots :
    LET p == sub[s]
    IN (p.reqLog # <<>> /\ \A k \in 1..Len(p.reqLog) : IsTransient(p.reqLog[k]))
         => /\ Len(p.reqLog) <= 3
            /\ p.delays = ExpectedDelays(IF Len(p.reqLog) < 3 THEN Len(p.reqLog) ELSE 2)
            /\ p.pc = "sleep" => Len(p.reqLog) < 3
            /\ FetchEnded(s) => /\ Len(p.reqLog) = 3
                                /\ p.delays = <<1000, 2000>>
                                /\ FetchThrew(s)
                                /\ p.pc = "awaitErrAdd" => p.err = ErrorMessage(p.reqLog[3])

\* a call has thrown after three transient failures
C3_Witness ==
  \E s \in 1..MaxSlots :
    /\ sub[s].pc = "awaitErrAdd" /\ Len(sub[s].reqLog) = 3
    /\ \A k \in 1..3 : IsTransient(sub[s].reqLog[k])
    /\ sub[s].reqLog[1] = Resp(500) /\ sub[s].reqLog[3] = NetFail
(* ------------------------- the engine's claims ------------------------- *)
\* C4: once a conversation's title has been set (it is no longer the
\* default), no step changes it.
C4_TitleSetOnce ==
  [][\A c \in (DOMAIN chatDocs) \cap (DOMAIN chatDocs') :
       chatDocs[c].title # StrNewChat => chatDocs'[c].title = chatDocs[c].title]_vars

\* the submissions in flight for conversation c
InFlight(c) == {s \in Running : sub[s].chatId = c}

HasContent == trim(input) # <<>> \/ selectedImage # NoImage

\* a submission is in flight in a conversation other than the current one
InFlightElsewhere ==
  /\ currentChatId \in DOMAIN chatDocs
  /\ \E s \in Running : sub[s].chatId \notin {NoChat, currentChatId}

\* a submit event meets nothing but the guard: there is content, and the
\* model's budget and slots allow one more submission
SubmitPossible ==
  HasContent /\ sends > 0 /\ \E s \in 1..MaxSlots : sub[s].pc = "idle"

\* C6 as stated: with a submission in flight in A and the user switched to
\* B, a submit in B is accepted.
C6_NoLockAcrossConversations ==
  (InFlightElsewhere /\ SubmitPossible) => ENABLED SendAccepted

\* C6 amended: the guard is one flag for the whole component; with a
\* submission in flight in A and the user switched to B, the loading flag
\* is set and a submit in B is refused.
C6_GuardIsGlobal ==
  InFlightElsewhere => (isLoading /\ SendRejected /\ ~ENABLED SendAccepted)

\* a submission is in flight in A, the user is in B and holds an image
C6_Witness ==
  /\ InFlightElsewhere /\ SubmitPossible
  /\ \A s \in Running : ~sub[s].fresh

\* the stored turns of conversation c written by sender
Turns(c, sender) == {m \in msgDocs : m.chatId = c /\ m.sender = sender}

\* every accepted submission of c has completed successfully and nothing
\* else has touched the conversation's log
AllSucceeded(c) ==
  /\ InFlight(c) = {}
  /\ ledger[c].succeeded = ledger[c].accepted
  /\ ~ledger[c].touched

\* C8: after N accepted submissions that all completed successfully, the
\* conversation holds exactly N user turns and N assistant turns, 2N in all.
C8_TwoTurnsPerSubmission ==
  \A c \in DOMAIN chatDocs :
    AllSucceeded(c) =>
      /\ Cardinality(Turns(c, "user")) = ledger[c].accepted
      /\ Cardinality({m \in Turns(c, "ai") : ~m.isError}) = ledger[c].accepted
      /\ Cardinality({m \in msgDocs : m.chatId = c}) = 2 * ledger[c].accepted

\* two submissions of one conversation have both completed
C8_Witness ==
  \E c \in DOMAIN chatDocs :
    /\ AllSucceeded(c) /\ ledger[c].accepted = MaxSends
    /\ Cardinality({m \in msgDocs : m.chatId = c}) = 2 * MaxSends
(* ------------------------- the deletion claims ------------------------- *)
\* the stored turns that reference conversation c
TurnsOf(c) == {m \in msgDocs : m.chatId = c}

\* C1: a step of clear-all that deletes a conversation record finds no
\* stored turn referencing that conversation.
C1_NoRecordDeletedBeforeTurns ==
  [][\A c \in ChatIds :
       (clr.pc = "chatBatch" /\ c \in DOMAIN chatDocs /\ c \notin DOMAIN chatDocs')
         => TurnsOf(c) = {}]_vars

\* no delete operation is running
DeletesAtRest ==
  /\ del.pc \in {"idle", "done", "failed"}
  /\ clr.pc \in {"idle", "done", "failed"}

\* C7: once a delete operation has completed, every stored turn references
\* a conversation whose record exists.
C7_NoOrphanTurns ==
  (DeletesAtRest /\ (del.pc = "done" \/ clr.pc = "done"))
    => \A m \in msgDocs : m.chatId \in DOMAIN chatDocs

RECURSIVE Sum(_)
Sum(q) == IF q = <<>> THEN 0 ELSE Head(q) + Sum(Tail(q))

\* the page deletions that drain n turns: full pages, then the rest
ExpectedPages(n) ==
  [k \in 1..((n + batchSize - 1) \div batchSize) |->
     IF k * batchSize <= n THEN batchSize ELSE n % batchSize]

\* the turns the running delete found in its conversation (nothing is
\* appended while it runs)
DelTurnCount == Sum(del.pages) + Cardinality(TurnsOf(del.chatId))

\* the pages of the running delete are full, except perhaps the last
DelPagesWellFormed ==
  \A k \in 1..Len(del.pages) :
    /\ del.pages[k] >= 1 /\ del.pages[k] <= batchSize
    /\ k < Len(del.pages) => del.pages[k] = batchSize

\* C9: handleDeleteChat commits page deletions of at most batchSize turns,
\* all of them full except perhaps the last; it turns to the record only
\* when a page held fewer than batchSize turns, the conversation's turns
\* are gone and the pages are those of ExpectedPages (for 450 turns: 200,
\* 200, 50); and the record is deleted by no other step.
C9_PagedDelete ==
  /\ [](/\ DelPagesWellFormed
        /\ Cardinality(del.batch) <= batchSize
        /\ del.pc \in {"deleteDoc", "done"} =>
             /\ TurnsOf(del.chatId) = {}
             /\ del.pages = ExpectedPages(DelTurnCount)
             /\ DelTurnCount = 450 => del.pages = <<200, 200, 50>>
        /\ del.pc = "done" => del.chatId \notin DOMAIN chatDocs)
  /\ [][\A c \in ChatIds :
          (c \in DOMAIN chatDocs /\ c \notin DOMAIN chatDocs')
            => (del.pc = "deleteDoc" /\ del.chatId = c /\ del'.pc = "done")]_vars

\* a conversation of 450 turns has been deleted
C9_Witness ==
  /\ del.pc = "done" /\ del.pages = <<200, 200, 50>>
  /\ del.chatId \notin DOMAIN chatDocs /\ msgDocs = {}

(* --------------------------- the view's claim -------------------------- *)
Sorted(q) ==
  \A i \in 1..Len(q), j \in 1..Len(q) : i < j => q[i].createdAt <= q[j].createdAt

\* C10: the sequence delivered to the message subscriber, and the view
\* built from it, are in ascending order of createdAt.
C10_ViewSorted == Sorted(lastSnap) /\ Sorted(messages)

\* another client's turn was delivered between the two turns of a submission
C10_Witness ==
  /\ Len(messages) >= 3
  /\ \E k \in 2..(Len(messages) - 1) :
       /\ messages[k].text = StrOther
       /\ messages[k - 1].sender = "user" /\ messages[k - 1].text # StrOther
       /\ messages[k + 1].sender = "ai"
(* ----------------------- the error path's claims ----------------------- *)
\* the last response of the completion call of submission s
LastResponse(s) == sub[s].reqLog[Len(sub[s].reqLog)]

\* the completion call of submission s has failed for good
CompletionFailed(s) ==
  /\ FetchThrew(s) /\ sub[s].reqLog # <<>>
  /\ ~ResponseOk(LastResponse(s))

\* the text of the error turn for a failure cause
ErrorText(cause) == StrErrHead \o cause \o StrErrTail

\* the write of the error turn by submission s went through
ErrTurnAppended(s) ==
  /\ sub'[s].pc = "awaitErrMeta"
  /\ \E m \in msgDocs' :
       /\ msgDocs' = msgDocs \cup {m} /\ m \notin msgDocs
       /\ m.chatId = sub[s].chatId /\ m.sender = "ai" /\ m.isError
       /\ m.text = ErrorText(ErrorMessage(LastResponse(s)))

\* the update of the preview by submission s went through
ErrPreviewSet(s) ==
  /\ sub'[s] = IdleSub /\ isLoading' = FALSE /\ msgDocs' = msgDocs
  /\ chatDocs'[sub[s].chatId].lastMessage = StrErrorOccurred
  /\ chatDocs'[sub[s].chatId].lastSender = "ai"

\* the submission ends with the store as it was
EndsUntouched(s) ==
  /\ sub'[s] = IdleSub /\ isLoading' = FALSE
  /\ msgDocs' = msgDocs /\ chatDocs' = chatDocs

\* C11 as stated: after the completion call has failed for good, the
\* submission appends exactly one turn, an assistant turn with the error flag
\* whose text embeds the cause of the failure; it then sets the preview to
\* "Error occurred" with last sender "ai", appends nothing more, clears the
\* loading flag and ends.
C11_ErrorTurnAlways ==
  [][\A s \in 1..MaxSlots :
       CompletionFailed(s) =>
         /\ sub[s].err = ErrorMessage(LastResponse(s))
         /\ (sub[s].pc = "awaitErrAdd" /\ sub'[s] # sub[s]) => ErrTurnAppended(s)
         /\ (sub[s].pc = "awaitErrMeta" /\ sub'[s] # sub[s]) => ErrPreviewSet(s)]_vars

\* C11, amended: after the completion call has failed for good, the
\* submission appends exactly one flagged assistant turn embedding the cause
\* and then sets the preview to "Error occurred" with last sender "ai",
\* unless one of these two writes fails: then the failure is swallowed, the
\* store is left as it was by that write, and the submission ends with the
\* loading flag cleared all the same.
C11_ErrorTurnOnFailure ==
  [][\A s \in 1..MaxSlots :
       CompletionFailed(s) =>
         /\ sub[s].err = ErrorMessage(LastResponse(s))
         /\ (sub[s].pc = "awaitErrAdd" /\ sub'[s] # sub[s]) =>
              IF faults' < faults THEN EndsUntouched(s) ELSE ErrTurnAppended(s)
         /\ (sub[s].pc = "awaitErrMeta" /\ sub'[s] # sub[s]) =>
              IF faults' < faults THEN EndsUntouched(s) ELSE ErrPreviewSet(s)]_vars

\* a submission has ended after the backend answered 500 to every attempt:
\* its conversation holds one assistant turn, flagged, naming the status, and
\* the preview is set
C11_Witness ==
  /\ Running = {} /\ ~isLoading
  /\ \E c \in DOMAIN chatDocs :
       /\ chatDocs[c].lastMessage = StrErrorOccurred
       /\ chatDocs[c].lastSender = "ai"
       /\ Cardinality({m \in msgDocs : m.chatId = c /\ m.sender = "ai"}) = 1
       /\ \E m \in msgDocs :
            /\ m.chatId = c /\ m.isError
            /\ m.text = ErrorText(ErrorMessage(Resp(500)))

\* C12: when the write of the user turn fails, the submission ends at once:
\* it has issued no request, no turn is appended, the conversation's
\* metadata is unchanged and the loading flag is cleared.
C12_UserWriteFailureAborts ==
  [][\A s \in 1..MaxSlots :
       (sub[s].pc = "awaitUserAdd" /\ sub'[s] # sub[s] /\ faults' < faults) =>
         /\ sub[s].reqLog = <<>>
         /\ sub'[s] = IdleSub /\ isLoading' = FALSE
         /\ msgDocs' = msgDocs /\ chatDocs' = chatDocs]_vars

\* a submission has ended on the failed write of its user turn: the budget
\* is spent, the store holds no turn and the title is the default
C12_Witness ==
  /\ Running = {} /\ ~isLoading /\ sends = 0 /\ faults = 0
  /\ msgDocs = {} /\ currentChatId \in DOMAIN chatDocs
  /\ chatDocs[currentChatId].title = StrNewChat
  /\ ledger[currentChatId].accepted = FaultSends

\* C13: every running submission ends, with the loading flag cleared.
C13_SubmissionTerminates ==
  \A s \in 1..MaxSlots :
    (sub[s].pc # "idle") ~> (sub[s].pc = "idle" /\ ~isLoading)

\* a submission has ended after the write of its error turn failed
C13_Witness ==
  /\ Running = {} /\ ~isLoading /\ sends = 0 /\ faults = 0
  /\ Cardinality(msgDocs) = 1
  /\ \E c \in DOMAIN chatDocs :
       /\ ledger[c].accepted = FaultSends /\ ledger[c].succeeded = 0
       /\ chatDocs[c].lastSender = "user"
\* C14: in every state, every conversation's updated-at is at least its
\* created-at and at least the creation time of every turn stored in its
\* log.
C14_UpdatedAtCoversTurns ==
  \A c \in DOMAIN chatDocs :
    /\ chatDocs[c].updatedAt >= chatDocs[c].createdAt
    /\ \A m \in TurnsOf(c) : m.createdAt <= chatDocs[c].updatedAt
(* ----------------------- the sidebar's handlers ------------------------ *)
PanelFrame ==
  UNCHANGED <<ui, chats, isClearing, sub, pendingNew, timers, authTimer, del, clr, budget,
              ledger>>

\* ChatHistory.jsx:258, 262: the search box
SetSearchQuery(q) ==
  /\ searchQuery # q
  /\ searchQuery' = q
  /\ PanelFrame /\ UNCHANGED <<store, selectedCategory, patches, edits>>

\* ChatHistory.jsx:244: a category tab
SetSelectedCategory(cat) ==
  /\ selectedCategory # cat
  /\ selectedCategory' = cat
  /\ PanelFrame /\ UNCHANGED <<store, searchQuery, patches, edits>>

Patch(c, field, pinned, category) ==
  [chatId |-> c, field |-> field, pinned |-> pinned, category |-> category]

\* handlePinChat, ChatHistory.jsx:172-179, up to its await: the new value is
\* the negation of the row's value in the sidebar's state
HandlePinChat(c) ==
  /\ c \in Shown /\ edits > 0
  /\ edits' = edits - 1
  /\ patches' = patches \cup {Patch(c, "pinned", ~FindRow(c).pinned, "")}
  /\ PanelFrame /\ UNCHANGED <<store, searchQuery, selectedCategory>>

\* handleSetCategory, ChatHistory.jsx:185-190, up to its await
HandleSetCategory(c, cat) ==
  /\ c \in Shown /\ edits > 0
  /\ edits' = edits - 1
  /\ patches' = patches \cup {Patch(c, "category", FALSE, cat)}
  /\ PanelFrame /\ UNCHANGED <<store, searchQuery, selectedCategory>>

\* a write that stores both fields of the edit instead of the one it names
PatchResolveBothFields(p) ==
  /\ p \in patches
  /\ patches' = patches \ {p}
  /\ IF p.chatId \in DOMAIN chatDocs
       THEN /\ chatDocs' =
                 [chatDocs EXCEPT ![p.chatId] =
                    [@ EXCEPT !.pinned = p.pinned, !.category = p.category,
                              !.updatedAt = clock + 1]]
            /\ clock' = clock + 1
       ELSE UNCHANGED <<chatDocs, clock>>
  /\ PanelFrame
  /\ UNCHANGED <<msgDocs, nextChatId, nextMsgId, searchQuery, selectedCategory,
                 edits>>

\* the updateDoc of a sidebar edit resolved (ChatHistory.jsx:176-182,
\* 187-194); it fails when the conversation is gone
PatchResolve(p) ==
  /\ p \in patches
  /\ patches' = patches \ {p}
  /\ IF p.chatId \in DOMAIN chatDocs
       THEN /\ chatDocs' =
                 [chatDocs EXCEPT ![p.chatId] =
                    IF p.field = "pinned"
                      THEN [@ EXCEPT !.pinned = p.pinned, !.updatedAt = clock + 1]
                      ELSE [@ EXCEPT !.category = p.category,
                                     !.updatedAt = clock + 1]]
            /\ clock' = clock + 1
       ELSE UNCHANGED <<chatDocs, clock>>
  /\ PanelFrame
  /\ UNCHANGED <<msgDocs, nextChatId, nextMsgId, searchQuery, selectedCategory,
                 edits>>

\* The sidebar over a registry of three conversations: the first has had a
\* turn that set its title, the other two are new.
PanelChats == 3
MaxEdits == 3
TextQuery == <<"N", "E", "W">>
TextNoMatch == <<"z">>

InitPanel ==
  /\ chatDocs = [c \in 1..PanelChats |->
                   IF c = 1
                     THEN [NewChatDoc(1) EXCEPT !.title = trim(TextHi),
                                                !.lastMessage = TextHi,
                                                !.lastSender = "ai",
                                                !.updatedAt = PanelChats + 3]
                     ELSE NewChatDoc(c)]
  /\ msgDocs = {MsgDoc(1, 1, "user", TextHi, PanelChats + 1, NoImage, <<>>, FALSE),
                MsgDoc(2, 1, "ai", TextHi, PanelChats + 2, NoImage, <<>>, FALSE)}
  /\ clock = PanelChats + 3 /\ nextChatId = PanelChats + 1 /\ nextMsgId = 3
  /\ messages = <<>> /\ input = <<>> /\ isLoading = FALSE
  /\ currentChatId = PanelChats /\ selectedImage = NoImage
  /\ msgSub = "new" /\ lastSnap = <<>>
  /\ chats = <<>> /\ isClearing = FALSE
  /\ searchQuery = <<>> /\ selectedCategory = "all"
  /\ patches = {} /\ edits = MaxEdits
  /\ sub = [s \in 1..MaxSlots |-> IdleSub]
  /\ pendingNew = 0 /\ timers = 0 /\ authTimer = 0
  /\ del = IdleDel /\ clr = IdleClr
  /\ sends = 0 /\ others = 0 /\ faults = 0 /\ dels = 0
  /\ ledger = [c \in ChatIds |-> NoLedger]

NextPanel ==
  \/ ChatsSnapshot
  \/ \E q \in {<<>>, TextQuery, TextNoMatch} : SetSearchQuery(q)
  \/ \E cat \in {"all", "work", "personal"} : SetSelectedCategory(cat)
  \/ \E c \in 1..PanelChats : HandlePinChat(c)
  \/ \E c \in 1..PanelChats, cat \in {"work", "personal"} :
       HandleSetCategory(c, cat)
  \/ \E p \in patches : PatchResolve(p)

SpecPanel == InitPanel /\ [][NextPanel]_vars

\* C15: in the derived view no unpinned row stands before a pinned one,
\* and the view holds exactly the rows of the registry that pass the search
\* string and the category filter, in the registry's order within the pinned
\* and within the unpinned rows.
C15_PinnedFirst ==
  /\ \A i, j \in 1..Len(sortedChats) :
       (i < j /\ sortedChats[j].pinned) => sortedChats[i].pinned
  /\ sortedChats =
       SelectSeq(filteredChats, LAMBDA r : r.pinned)
         \o SelectSeq(filteredChats, LAMBDA r : ~r.pinned)
  /\ \A k \in 1..Len(chats) :
       (chats[k].id \in Shown) <=>
         /\ includes(toLowerCase(chats[k].title), toLowerCase(searchQuery))
         /\ selectedCategory \in {"all", chats[k].category}

\* a pinned row that the registry lists behind an unpinned one is shown
\* before it, under a search string and a category filter that hide a row
C15_Witness ==
  /\ Len(sortedChats) >= 2 /\ Len(sortedChats) < Len(chats)
  /\ searchQuery # <<>> /\ selectedCategory # "all"
  /\ \E i, j \in 1..Len(filteredChats) :
       i < j /\ ~filteredChats[i].pinned /\ filteredChats[j].pinned
(* ------------------- the directive parser on its inputs ---------------- *)
\* The directive parser inside a submission: the backend answers with one
\* of the texts below, with and without an image of the user.
StrSure == <<"S", "u", "r", "e", "!">>
StrRedFox == <<"a", " ", "r", "e", "d", " ", "f", "o", "x", " ", "i", "n", " ", "s", "n", "o", "w">>
StrFox == <<"f", "o", "x">>

\* what a response may hold before the directive, as the description, and
\* behind the directive
Befores == {<<>>, StrSure \o <<" ">>}
Descriptions == {StrRedFox, <<" ">> \o StrFox \o <<" ">>}
Afters == {<<>>, <<" ", "b", " ">>}

Directive(d) == StrTag \o <<" ">> \o d \o <<"]">>

WithDirective == {b \o Directive(d) \o a : b \in Befores, d \in Descriptions, a \in Afters}

\* texts without a directive: padded text, a tag without description, a
\* tag that is never closed, a description on a second line
Plain == {<<" ", "o", "k", " ">>, StrSure, StrTag \o <<"]">>,
          StrTag \o <<" ">> \o StrFox,
          StrTag \o <<"\n", "]">>}

ParseBodies == WithDirective \cup Plain \cup {<<>>}

ParseSends == 1

InitParse == Start(ParseSends, 0, 0, 0)

NextParse ==
  \/ TypeInput(TextHi)
  \/ HandleImageSelect
  \/ HandleRemoveImage
  \/ CreateNewChatResolve
  \/ MessagesSnapshot
  \/ HandleSendMessage
  \/ Render
  \/ SendOkSteps({Resp(200)}, ParseBodies)

SpecParse == InitParse /\ [][NextParse]_vars

\* the submissions that hold a parsed response
Parsed == {s \in 1..MaxSlots : sub[s].pc \in {"awaitAiAdd", "awaitAiMeta"}}

\* s with every space written as %20
RECURSIVE PercentSpaces(_)
PercentSpaces(s) ==
  IF s = <<>> THEN <<>>
  ELSE (IF Head(s) = " " THEN <<"%", "2", "0">> ELSE <<Head(s)>>)
         \o PercentSpaces(Tail(s))

\* the URL for description d (letters and spaces)
UrlOf(d) == StrUrlHead \o PercentSpaces(trim(d)) \o StrUrlTail

StrRedFoxEncoded == <<"a", "%", "2", "0", "r", "e", "d", "%", "2", "0", "f", "o", "x", "%", "2", "0", "i", "n", "%", "2", "0", "s", "n", "o", "w">>

\* C16 as stated: a response b [IMAGE_REQUEST: d] a is parsed to the text
\* trim(b a) and to the URL that embeds the percent-encoded trim(d).
C16_DirectiveRemoved ==
  \A s \in Parsed : \A b \in Befores, d \in Descriptions, a \in Afters :
    sub[s].rawText = b \o Directive(d) \o a =>
      /\ sub[s].aiText = trim(b \o a)
      /\ sub[s].imageUrl = UrlOf(d)

\* C16, amended: a response b [IMAGE_REQUEST: d] a is parsed to the URL that
\* embeds the percent-encoded trim(d) and to the text trim(b a), or, when
\* that text is empty, to the caption that quotes trim(d); "Sure!
\* [IMAGE_REQUEST: a red fox in snow]" gives "Sure!" and a URL containing
\* a%20red%20fox%20in%20snow.
C16_DirectiveExtracted ==
  \A s \in Parsed :
    /\ \A b \in Befores, d \in Descriptions, a \in Afters :
         sub[s].rawText = b \o Directive(d) \o a =>
           /\ sub[s].aiText = IF trim(b \o a) # <<>> THEN trim(b \o a)
                              ELSE StrCaptionHead \o trim(d) \o <<"\"">>
           /\ sub[s].imageUrl = UrlOf(d)
    /\ sub[s].rawText = StrSure \o <<" ">> \o Directive(StrRedFox) =>
         /\ sub[s].aiText = StrSure
         /\ \E k \in 1..Len(sub[s].imageUrl) :
              StartsAt(sub[s].imageUrl, StrRedFoxEncoded, k)

\* the response of the example has been parsed
C16_Witness ==
  \E s \in Parsed :
    /\ sub[s].rawText = StrSure \o <<" ">> \o Directive(StrRedFox)
    /\ sub[s].aiText = StrSure /\ sub[s].imageUrl # <<>>

\* C17: a response without a directive is parsed to itself, untrimmed, and
\* to no URL; parsing the result again gives the same result.
C17_NoDirectiveUnchanged ==
  \A s \in Parsed :
    sub[s].rawText \in Plain \cup {StrSorry} =>
      /\ sub[s].aiText = sub[s].rawText /\ sub[s].imageUrl = <<>>
      /\ ExtractDirective(sub[s].aiText) = [text |-> sub[s].aiText, url |-> <<>>]

\* a padded response without a directive has been parsed
C17_Witness ==
  \E s \in Parsed :
    /\ sub[s].rawText = <<" ", "o", "k", " ">>
    /\ sub[s].aiText # trim(sub[s].aiText)

\* C18: no stored turn carries both inline image data and a generated-image
\* URL; inline image data is carried by user turns only, a generated-image
\* URL by assistant turns only.
C18_ImageFieldsExclusive ==
  \A m \in msgDocs :
    /\ ~(m.imageData # NoImage /\ m.imageUrl # <<>>)
    /\ m.imageData # NoImage => m.sender = "user"
    /\ m.imageUrl # <<>> => m.sender = "ai"

\* a conversation holds a user turn with an image and an assistant turn
\* with a generated image
C18_Witness ==
  \E u, a \in msgDocs :
    /\ u.chatId = a.chatId
    /\ u.sender = "user" /\ u.imageData # NoImage /\ u.hasImage
    /\ a.sender = "ai" /\ a.imageUrl # <<>> /\ a.hasImage
\* the view holds an entry that carries the welcome flag
ViewHasWelcome == \E k \in 1..Len(messages) : messages[k].isWelcome

\* C19 as stated: no stored turn carries the welcome flag, and the view
\* holds an entry with the welcome flag only when the snapshot delivered last
\* is empty.
C19_WelcomeOnlyOnEmpty ==
  /\ \A m \in msgDocs : ~m.isWelcome
  /\ ViewHasWelcome => lastSnap = <<>>

\* C19, amended: no stored turn carries the welcome flag; the view holds an
\* entry with the welcome flag only as its single entry, which is the
\* welcome placeholder when the snapshot delivered last is empty, or the
\* load-error placeholder when the listener has failed, whatever it had
\* delivered before.
C19_WelcomeNeverStored ==
  /\ \A m \in msgDocs : ~m.isWelcome
  /\ ViewHasWelcome =>
       \/ messages = <<Placeholder(StrWelcome)>> /\ lastSnap = <<>>
       \/ messages = <<Placeholder(StrLoadError)>> /\ msgSub = "dead"

\* the view shows the welcome placeholder of an empty snapshot while the
\* store already holds a turn of the conversation
C19_Witness ==
  /\ messages = <<Placeholder(StrWelcome)>> /\ msgSub = "live" /\ lastSnap = <<>>
  /\ \E m \in msgDocs : m.chatId = currentChatId
(* ----------------------------- regeneration ---------------------------- *)
\* Regeneration in one conversation: the user types one of two texts,
\* submits, and asks for a new answer; every call succeeds.
TextBye == <<"b", "y", "e">>
RegenSends == 2

InitRegen == Start(RegenSends, 0, 0, 0)

NextRegen ==
  \/ \E t \in {TextHi, TextBye} : TypeInput(t)
  \/ CreateNewChatResolve
  \/ MessagesSnapshot
  \/ HandleSendMessage
  \/ Render
  \/ SendOkSteps({Resp(200)}, {BodyPlain})
  \/ RegenerateResponse
  \/ RegenTimerFire

SpecRegen == InitRegen /\ [][NextRegen]_vars

\* the user turns stored for conversation c, and the newest of them
UserTurnsOf(c) == {m \in msgDocs : m.chatId = c /\ m.sender = "user"}
LastUserTurn(c) ==
  CHOOSE m \in UserTurnsOf(c) : \A n \in UserTurnsOf(c) : n.createdAt <= m.createdAt

\* C20: the submission started by regeneration carries the text of the most
\* recent user turn of the conversation; no step removes or changes a
\* stored turn, and a turn stored by a step is newer than those stored
\* before.
C20_RegenerateResubmits ==
  [][/\ \A s \in 1..MaxSlots :
          (timers' < timers /\ sub[s].pc = "idle" /\ sub'[s].pc # "idle") =>
            /\ sub'[s].chatId = currentChatId
            /\ UserTurnsOf(currentChatId) # {}
            /\ sub'[s].text = LastUserTurn(currentChatId).text
     /\ msgDocs \subseteq msgDocs'
     /\ \A m \in msgDocs' \ msgDocs : \A n \in msgDocs : n.createdAt < m.createdAt]_vars
(* ------------------------ the deletion controller ---------------------- *)
\* C21: a call of clear-all that is made while another one is running, or
\* whose first or second confirmation is declined, changes nothing: no
\* turn, no conversation record and no other state.
C21_DeclinedClearChangesNothing ==
  [][\A first, second \in BOOLEAN :
       (HandleClearAllChats(first, second) /\ (isClearing \/ ~first \/ ~second))
         => UNCHANGED vars]_vars

\* a clear-all is running on a registry that still holds a conversation and
\* its turns: a further call finds the clearing flag set
C21_Witness ==
  /\ isClearing /\ clr.pc = "commit"
  /\ chatDocs # <<>> /\ msgDocs # {}
  /\ \A first, second \in BOOLEAN : ENABLED HandleClearAllChats(first, second)
\* Clear-all while the user goes on: a conversation is listed in the
\* sidebar; before or during the clear the user submits, or opens a new
\* conversation and submits in it.
ClearSends == 1
ClearRuns == 1

InitClear == Start(ClearSends, 0, 0, ClearRuns)

NextClear ==
  \/ TypeInput(TextHi)
  \/ CreateNewChatResolve
  \/ HandleNewChat
  \/ MessagesSnapshot
  \/ ChatsSnapshot
  \/ HandleSendMessage
  \/ Render
  \/ SendOkSteps({Resp(200)}, {BodyPlain})
  \/ SendErrSteps
  \/ \E first, second \in BOOLEAN : HandleClearAllChats(first, second)
  \/ ClearSteps

SpecClear == InitClear /\ [][NextClear]_vars

\* the ids captured by the clear-all call
Captured == {clr.chatIds[j] : j \in 1..Len(clr.chatIds)}
ClearRunning == clr.pc \in {"query", "commit", "chatBatch"}

\* C22: a running clear-all keeps the list of ids it captured from the
\* sidebar when it started; a conversation that is not in that list, such as
\* one created during the clear, keeps its record and all its turns.
C22_ClearUsesCapturedIds ==
  [][/\ (clr.pc \in {"idle", "done", "failed"} /\ ClearRunning') =>
          clr'.chatIds = [k \in 1..Len(chats) |-> chats[k].id]
     /\ (ClearRunning /\ clr'.pc # "idle") => clr'.chatIds = clr.chatIds
     /\ \A c \in (DOMAIN chatDocs) \ Captured :
          /\ c \in DOMAIN chatDocs'
          /\ TurnsOf(c) \subseteq msgDocs']_vars

\* the drain loops of a clear-all are over; a conversation created after
\* the clear-all started holds a turn and is not in the captured list
C22_Witness ==
  /\ clr.pc = "chatBatch" /\ Captured # {}
  /\ \E c \in (DOMAIN chatDocs) \ Captured :
       chatDocs[c].createdAt > clr.since /\ TurnsOf(c) # {}
\* Deleting a large registry: the store holds n conversations, all listed
\* in the sidebar; the first of them holds t turns and is the current one,
\* the others are empty. The user clears all chats or deletes the first.
ChatCounts == {1, 2, 500, 501, 1001}
BulkTurnCounts == {0, 200, 201}
BulkRuns == 1

BulkTurn(k, n) ==
  MsgDoc(k, 1, IF k % 2 = 1 THEN "user" ELSE "ai", TextHi, n + k, NoImage,
         <<>>, FALSE)

BulkDoc(c, n, t) ==
  IF c = 1 /\ t > 0
    THEN [NewChatDoc(1) EXCEPT !.title = trim(TextHi), !.lastMessage = TextHi,
                               !.lastSender = "ai", !.updatedAt = n + t + 1]
    ELSE NewChatDoc(c)

\* the sidebar's rows, newest update first
BulkRows(n, t) ==
  [k \in 1..n |->
     LET c == IF t = 0 THEN n + 1 - k ELSE IF k = 1 THEN 1 ELSE n + 2 - k
     IN [id |-> c, title |-> BulkDoc(c, n, t).title, pinned |-> FALSE,
         category |-> "personal"]]

InitBulk ==
  \E n \in ChatCounts, t \in BulkTurnCounts :
    /\ chatDocs = [c \in 1..n |-> BulkDoc(c, n, t)]
    /\ msgDocs = {BulkTurn(k, n) : k \in 1..t}
    /\ clock = n + t + 1 /\ nextChatId = n + 1 /\ nextMsgId = t + 1
    /\ messages = <<>> /\ input = <<>> /\ isLoading = FALSE
    /\ currentChatId = (IF t = 0 THEN n ELSE 1) /\ selectedImage = NoImage
    /\ msgSub = "new" /\ lastSnap = <<>>
    /\ chats = BulkRows(n, t) /\ isClearing = FALSE
    /\ searchQuery = <<>> /\ selectedCategory = "all"
    /\ patches = {} /\ edits = 0
    /\ sub = [s \in 1..MaxSlots |-> IdleSub]
    /\ pendingNew = 0 /\ timers = 0 /\ authTimer = 0
    /\ del = IdleDel /\ clr = IdleClr
    /\ sends = 0 /\ others = 0 /\ faults = 0 /\ dels = BulkRuns
    /\ ledger = [c \in ChatIds |-> NoLedger]

NextBulk ==
  \/ CreateNewChatResolve
  \/ HandleDeleteChat(1)
  \/ DeleteSteps
  \/ \E first, second \in BOOLEAN : HandleClearAllChats(first, second)
  \/ ClearSteps

SpecBulk == InitBulk /\ [][NextBulk]_vars

\* C23: no step deletes more than 200 turns or more than 500 conversation
\* records at once, and every page and record batch the deletion handlers
\* have committed is within these limits.
C23_BatchesWithinLimits ==
  /\ [][/\ Cardinality(msgDocs \ msgDocs') <= 200
        /\ Cardinality((DOMAIN chatDocs) \ (DOMAIN chatDocs')) <= 500]_vars
  /\ [](/\ \A k \in 1..Len(del.pages) : del.pages[k] <= 200
        /\ \A k \in 1..Len(clr.pages) : clr.pages[k] <= 200
        /\ \A k \in 1..Len(clr.recs) : clr.recs[k] <= 500)

\* a clear-all of 501 conversations, one of them of 201 turns, is done: it
\* took two pages and two record batches
C23_Witness ==
  /\ clr.pc = "done" /\ Len(clr.chatIds) = 501
  /\ clr.pages = <<200, 1>> /\ clr.recs = <<500, 1>>
  /\ chatDocs = <<>> /\ msgDocs = {}
(* ------------------------- the request payload ------------------------- *)
\* the role under which a stored turn is sent
RoleOf(m) == IF m.sender = "user" THEN "user" ELSE "model"

\* the stored turns of conversation c before its newest one, without those
\* that carry an image, as entries of a request
PriorHistory(c) ==
  LET q == MessagesQuery(c)
      prior == SelectSeq(SubSeq(q, 1, Len(q) - 1), LAMBDA m : ~m.hasImage)
  IN [k \in 1..Len(prior) |-> [role |-> RoleOf(prior[k]), text |-> prior[k].text]]

\* C24: a request built without an image goes to the text endpoint, and its
\* contents are the stored turns of the conversation that precede the new
\* user turn and carry no image, in log order, user turns as "user" and
\* assistant turns as "model", followed by the new user text; nothing else
\* is in it.
C24_TextRequestIsStoredHistory ==
  \A s \in 1..MaxSlots :
    (sub[s].pc = "fetch" /\ sub[s].reqLog = <<>> /\ sub[s].image = NoImage) =>
      /\ sub[s].url = "chat"
      /\ sub[s].contents =
           PriorHistory(sub[s].chatId) \o <<[role |-> "user", text |-> sub[s].text]>>

(* ------------------------------ C25 ------------------------------------ *)
\* a submission leaves the idle position in this step
Accepted(s) == sub[s].pc = "idle" /\ sub'[s].pc # "idle"

\* the request of a submission is built in this step (AIChat.jsx:326-367)
RequestBuilt(s) == sub[s].pc = "awaitUserMeta" /\ sub'[s].pc = "fetch"

\* C25: a submission with an image attached sends its first request to the
\* vision endpoint, with one entry holding the image and the typed text (the
\* default prompt when no text was typed); the step that builds that request
\* clears the pending image, and a submission accepted while no image is
\* pending carries none and goes to the text endpoint.
C25_VisionRequestClearsImage ==
  /\ [](\A s \in 1..MaxSlots :
          (sub[s].pc = "fetch" /\ sub[s].reqLog = <<>>) =>
            IF sub[s].image # NoImage
              THEN /\ sub[s].url = "vision"
                   /\ Len(sub[s].contents) = 1
                   /\ sub[s].contents[1].inline_data = sub[s].image
                   /\ sub[s].contents[1].text =
                        IF sub[s].text = <<>> THEN StrWhatsInImage
                        ELSE sub[s].text
              ELSE sub[s].url = "chat")
  /\ [][\A s \in 1..MaxSlots :
          /\ (RequestBuilt(s) /\ sub'[s].image # NoImage)
               => selectedImage' = NoImage
          /\ (Accepted(s) /\ selectedImage = NoImage)
               => sub'[s].image = NoImage]_vars

\* after a vision submission was stored, the next submission, made without
\* selecting an image again, is at the text endpoint
C25_Witness ==
  /\ selectedImage = NoImage
  /\ \E m \in msgDocs : m.sender = "user" /\ m.hasImage
  /\ \E m \in msgDocs : m.sender = "user" /\ ~m.hasImage
  /\ \E s \in 1..MaxSlots :
       /\ sub[s].pc = "fetch" /\ sub[s].reqLog = <<>>
       /\ sub[s].image = NoImage /\ sub[s].url = "chat"


(* ------------------------------ C26 ------------------------------------ *)
\* the submission is saving its error turn (AIChat.jsx:446-462)
SavingError(s) == sub[s].pc \in {"awaitErrAdd", "awaitErrMeta"}

\* C26: when the write of the error turn, or the metadata update after it,
\* fails, the submission ends in that step: the store is left as it was, the
\* loading flag is cleared, the submission is idle again (it makes no further
\* call) and the engine goes on.
C26_ErrorSaveFailureSwallowed ==
  [][\A s \in 1..MaxSlots :
       (SavingError(s) /\ sub'[s] # sub[s] /\ faults' < faults) =>
         /\ sub'[s] = IdleSub
         /\ isLoading' = FALSE
         /\ store' = store
         /\ ledger' = ledger]_vars

\* a submission has ended after the metadata update that follows its error
\* turn failed: the error turn is stored, the preview was never set
C26_Witness ==
  /\ Running = {} /\ ~isLoading /\ faults = 0
  /\ \E c \in DOMAIN chatDocs :
       /\ \E m \in msgDocs : m.chatId = c /\ m.isError
       /\ chatDocs[c].lastMessage # StrErrorOccurred


(* ------------------------------ C27 ------------------------------------ *)
\* C27: one call of fetchWithRetries makes at most three requests; only its
\* last request can have succeeded, and once a request has succeeded the call
\* has returned: it is neither waiting nor at a further request, and it has
\* waited once for each failed request and no more.
C27_AtMostThreeRequests ==
  \A s \in 1..MaxSlots :
    LET p == sub[s]
        n == Len(p.reqLog)
    IN /\ n <= 3
       /\ \A k \in 1..(n - 1) : ~ResponseOk(p.reqLog[k])
       /\ (n > 0 /\ ResponseOk(p.reqLog[n])) =>
            /\ p.pc \notin {"fetch", "sleep"}
            /\ Len(p.delays) = n - 1

\* a 500 followed by a 200: two requests, one wait, and the response is
\* being used
C27_Witness ==
  \E s \in 1..MaxSlots :
    /\ sub[s].reqLog = <<Resp(500), Resp(200)>>
    /\ sub[s].delays = <<1000>>
    /\ sub[s].pc = "awaitAiAdd" /\ sub[s].rawText = BodyPlain


(* ------------------------------ C28 ------------------------------------ *)
\* what a response may hold between two directives
Mids == {<<>>, <<" ", "o", "r", " ">>}

\* responses with two directives
TwoDirectives ==
  {b \o Directive(d1) \o m \o Directive(d2) \o a :
     b \in Befores, d1 \in Descriptions, m \in Mids, d2 \in Descriptions,
     a \in Afters}

\* The parser over responses that hold two directives.
InitParseTwo == Start(ParseSends, 0, 0, 0)

NextParseTwo ==
  \/ TypeInput(TextHi)
  \/ HandleImageSelect
  \/ HandleRemoveImage
  \/ CreateNewChatResolve
  \/ MessagesSnapshot
  \/ HandleSendMessage
  \/ Render
  \/ SendOkSteps({Resp(200)}, TwoDirectives)

SpecParseTwo == InitParseTwo /\ [][NextParseTwo]_vars

\* C28: a response b [IMAGE_REQUEST: d1] m [IMAGE_REQUEST: d2] a is parsed to
\* the URL of d1 and to the text trim(b m [IMAGE_REQUEST: d2] a): the first
\* directive alone is removed and the second one is still in the text, as it
\* was written.
C28_FirstDirectiveOnly ==
  \A s \in Parsed :
    \A b \in Befores, d1 \in Descriptions, m \in Mids, d2 \in Descriptions,
       a \in Afters :
      sub[s].rawText = b \o Directive(d1) \o m \o Directive(d2) \o a =>
        /\ sub[s].imageUrl = UrlOf(d1)
        /\ sub[s].aiText = trim(b \o m \o Directive(d2) \o a)
        /\ includes(sub[s].aiText, Directive(d2))
        /\ d1 # d2 => ~includes(sub[s].aiText, Directive(d1))

\* a response with two different directives has been parsed
C28_Witness ==
  \E s \in Parsed :
    /\ sub[s].rawText = StrSure \o <<" ">> \o Directive(StrRedFox)
                          \o <<" ", "o", "r", " ">>
                          \o Directive(<<" ">> \o StrFox \o <<" ">>)
    /\ sub[s].imageUrl = UrlOf(StrRedFox)
    /\ includes(sub[s].aiText, Directive(<<" ">> \o StrFox \o <<" ">>))


(* ------------------------------ C29 ------------------------------------ *)
\* a and b are the same letter, whatever their case
SameLetter(a, b) ==
  \/ a = b
  \/ \E i \in 1..Len(UpperCase) : {a, b} = {UpperCase[i], LowerCase[i]}

\* q occurs in title when case is ignored
ContainsIgnoringCase(title, q) ==
  \E k \in 0..(Len(title) - Len(q)) :
    \A j \in 1..Len(q) : SameLetter(title[k + j], q[j])

\* the rows of the live list that the search string and the selected
\* category let through
Passing ==
  {k \in 1..Len(chats) :
     /\ ContainsIgnoringCase(chats[k].title, searchQuery)
     /\ selectedCategory = "all" \/ chats[k].category = selectedCategory}

\* C29: the derived view holds exactly the rows of the live list whose title
\* contains the search string, case ignored, and whose category is the
\* selected one (every category under "all"), each of them once; with an
\* empty search string and "all" it holds every row of the live list.
C29_ViewIsFilteredList ==
  /\ Shown = {chats[k].id : k \in Passing}
  /\ Len(sortedChats) = Cardinality(Passing)
  /\ \A k \in 1..Len(sortedChats) :
       \E j \in Passing : sortedChats[k] = chats[j]
  /\ (searchQuery = <<>> /\ selectedCategory = "all") =>
       /\ Len(sortedChats) = Len(chats)
       /\ Shown = {chats[k].id : k \in 1..Len(chats)}

\* under the search string "NEW" and the category "work" a row is shown
\* whose title holds "New", one row is hidden by its title alone and one by
\* its category alone
C29_Witness ==
  /\ searchQuery = TextQuery /\ selectedCategory = "work"
  /\ \E k \in Passing : ~includes(chats[k].title, searchQuery)
  /\ \E k \in 1..Len(chats) :
       /\ chats[k].id \notin Shown /\ chats[k].category = "work"
       /\ ~ContainsIgnoringCase(chats[k].title, searchQuery)
  /\ \E k \in 1..Len(chats) :
       /\ chats[k].id \notin Shown /\ chats[k].category # "work"
       /\ ContainsIgnoringCase(chats[k].title, searchQuery)


(* ------------------------------ C30 ------------------------------------ *)
\* the position of the conversation c in the live list
PositionOf(c) == CHOOSE k \in 1..Len(chats) : chats[k].id = c

\* C30: two rows of the derived view with the same pinned value stand in the
\* order the live list has them in, and the live list is delivered in
\* descending order of updated-at.
C30_SortIsStable ==
  /\ [](\A i, j \in 1..Len(sortedChats) :
          (i < j /\ sortedChats[i].pinned = sortedChats[j].pinned) =>
            PositionOf(sortedChats[i].id) < PositionOf(sortedChats[j].id))
  /\ [][chats' # chats =>
          \A i, j \in 1..Len(chats') :
            (i < j /\ chats'[i].id \in DOMAIN chatDocs'
                   /\ chats'[j].id \in DOMAIN chatDocs') =>
              chatDocs'[chats'[i].id].updatedAt
                >= chatDocs'[chats'[j].id].updatedAt]_vars

\* the live list has an unpinned row before two pinned ones: the view shows
\* the two pinned rows first, in the order of the live list
C30_Witness ==
  /\ Len(chats) = 3 /\ Len(sortedChats) = 3
  /\ ~chats[1].pinned /\ chats[2].pinned /\ chats[3].pinned
  /\ sortedChats = <<chats[2], chats[3], chats[1]>>


(* ------------------------------ C31 ------------------------------------ *)
\* the fields of a conversation that no sidebar edit writes
KeptByEdits(doc) == <<doc.title, doc.lastMessage, doc.lastSender, doc.createdAt>>

\* C31: the write of a pin edit changes the pinned flag and the updated-at
\* of its conversation and nothing else; the write of a category edit
\* changes the category and the updated-at and nothing else. Title, preview,
\* last sender, created-at, the other of the two fields, every other
\* conversation and the message log are as before; issuing the edit writes
\* nothing.
C31_EditsPatchOneField ==
  [][/\ msgDocs' = msgDocs /\ DOMAIN chatDocs' = DOMAIN chatDocs
     /\ patches' = patches => chatDocs' = chatDocs
     /\ \A p \in patches \ patches' :
          /\ \A c \in (DOMAIN chatDocs) \ {p.chatId} : chatDocs'[c] = chatDocs[c]
          /\ p.chatId \in DOMAIN chatDocs =>
               LET old == chatDocs[p.chatId]
                   new == chatDocs'[p.chatId]
               IN /\ KeptByEdits(new) = KeptByEdits(old)
                  /\ new.updatedAt > old.updatedAt
                  /\ IF p.field = "pinned"
                       THEN new.pinned = p.pinned /\ new.category = old.category
                       ELSE new.category = p.category /\ new.pinned = old.pinned]_vars

\* a conversation with a turn has been pinned and filed under "work": its
\* title, preview and log are those it had at the start
C31_Witness ==
  /\ patches = {} /\ chatDocs[1].pinned /\ chatDocs[1].category = "work"
  /\ chatDocs[1].title = trim(TextHi) /\ chatDocs[1].lastMessage = TextHi
  /\ chatDocs[1].lastSender = "ai" /\ chatDocs[1].createdAt = 1
  /\ chatDocs[1].updatedAt > PanelChats + 3
  /\ Cardinality(msgDocs) = 2

(* ------------------------------ C32 ------------------------------------ *)
\* Deleting while the user moves between conversations: the sidebar, new
\* chats, selecting a row, one submission and one delete.
HandoffSends == 1
HandoffDeletes == 1

InitHandoff == Start(HandoffSends, 0, 0, HandoffDeletes)

NextHandoff ==
  \/ TypeInput(TextHi)
  \/ CreateNewChatResolve
  \/ HandleNewChat
  \/ \E c \in ChatIds : HandleSelectChat(c)
  \/ MessagesSnapshot
  \/ ChatsSnapshot
  \/ HandleSendMessage
  \/ Render
  \/ SendOkSteps({Resp(200)}, {BodyPlain})
  \/ SendErrSteps
  \/ \E c \in ChatIds : HandleDeleteChat(c)
  \/ DeleteSteps

SpecHandoff == InitHandoff /\ [][NextHandoff]_vars

\* the delete handler has returned and no createNewChat call is pending
DeleteSettled == del.pc = "done" /\ pendingNew = 0

\* C32: the step that deletes the record of the conversation that is active
\* at that moment calls for a replacement conversation, so that the active
\* id does not stay on the deleted record.
C32_ActiveDeleteIsReplaced ==
  [][(del.pc = "deleteDoc" /\ del'.pc = "done" /\ currentChatId = del.chatId)
       => pendingNew' = pendingNew + 1]_vars

\* the delete has returned, nothing is pending, and the active id is the
\* id of the deleted record although every createNewChat call was answered
C32_StrandedOnDeleted ==
  /\ DeleteSettled /\ currentChatId = del.chatId /\ del.cur # del.chatId
  /\ currentChatId \notin DOMAIN chatDocs
(* ------------------------------ C33 ------------------------------------ *)
\* Deleting with a failing store: the store holds two conversations, both
\* listed in the sidebar, the first with t turns; one store call may fail,
\* and a deletion may be run a second time.
DrainChats == 2
DrainTurnCounts == {1, 201}
DrainFaults == 1
DrainRuns == 2

InitDrain ==
  \E t \in DrainTurnCounts :
    /\ chatDocs = [c \in 1..DrainChats |-> BulkDoc(c, DrainChats, t)]
    /\ msgDocs = {BulkTurn(k, DrainChats) : k \in 1..t}
    /\ clock = DrainChats + t + 1 /\ nextChatId = DrainChats + 1
    /\ nextMsgId = t + 1
    /\ messages = <<>> /\ input = <<>> /\ isLoading = FALSE
    /\ currentChatId = 1 /\ selectedImage = NoImage
    /\ msgSub = "new" /\ lastSnap = <<>>
    /\ chats = BulkRows(DrainChats, t) /\ isClearing = FALSE
    /\ searchQuery = <<>> /\ selectedCategory = "all"
    /\ patches = {} /\ edits = 0
    /\ sub = [s \in 1..MaxSlots |-> IdleSub]
    /\ pendingNew = 0 /\ timers = 0 /\ authTimer = 0
    /\ del = IdleDel /\ clr = IdleClr
    /\ sends = 0 /\ others = 0 /\ faults = DrainFaults /\ dels = DrainRuns
    /\ ledger = [c \in ChatIds |-> NoLedger]

NextDrain ==
  \/ CreateNewChatResolve
  \/ \E c \in 1..DrainChats : HandleDeleteChat(c)
  \/ DeleteSteps
  \/ \E first, second \in BOOLEAN : HandleClearAllChats(first, second)
  \/ ClearSteps

SpecDrain == InitDrain /\ [][NextDrain]_vars

\* every conversation the store held at the start is still stored
AllRecordsKept == \A c \in 1..DrainChats : c \in DOMAIN chatDocs

\* one deletion has been started since the start, and no more
OnlyRun == dels = DrainRuns - 1

\* C33: a page query or page commit that fails ends its delete or clear-all
\* without a conversation record being deleted: the failing step leaves the
\* records as they are, the clear-all has committed no record batch, and
\* the handler takes no further step; when the failed operation is the only
\* one that ran, every record of the start is still stored. The operation
\* can then be started again.
C33_FailedDrainKeepsRecords ==
  /\ [][/\ (del.pc \in {"query", "commit"} /\ del' # del) =>
             /\ chatDocs' = chatDocs
             /\ faults' < faults => del'.pc = "failed"
        /\ (clr.pc \in {"query", "commit"} /\ clr' # clr) =>
             /\ chatDocs' = chatDocs
             /\ faults' < faults => (clr'.pc = "failed" /\ clr'.recs = <<>>)
        /\ (del.pc = "failed" /\ del' # del) => del'.pc = "query"
        /\ (clr.pc = "failed" /\ clr' # clr) => clr'.pc = "query"]_vars
  /\ []((OnlyRun /\ del.pc = "failed") => AllRecordsKept)
  /\ []((OnlyRun /\ clr.pc = "failed" /\ clr.recs = <<>>) => AllRecordsKept)

\* a clear-all has failed after it had deleted a full page of turns: both
\* records are stored and the clear-all can be started again
C33_Witness ==
  /\ clr.pc = "failed" /\ clr.pages = <<200>> /\ OnlyRun
  /\ Cardinality(msgDocs) = 1 /\ AllRecordsKept
  /\ ~isClearing /\ dels > 0
  /\ ENABLED HandleClearAllChats(TRUE, TRUE)
(* ------------------------------ C34 ------------------------------------ *)
\* One submission while the user moves between conversations; the backend
\* may answer 500.
MoveSends == 1

InitMove == Start(MoveSends, 0, 0, 0)

NextMove ==
  \/ TypeInput(TextHi)
  \/ CreateNewChatResolve
  \/ HandleNewChat
  \/ \E c \in ChatIds : HandleSelectChat(c)
  \/ MessagesSnapshot
  \/ ChatsSnapshot
  \/ HandleSendMessage
  \/ Render
  \/ SendOkSteps({Resp(200), Resp(500)}, {BodyPlain})
  \/ SendWake
  \/ SendErrSteps

SpecMove == InitMove /\ [][NextMove]_vars

\* submission s takes a step
Acts(s) == sub[s].pc # "idle" /\ sub'[s] # sub[s]

\* the stored user turn of submission s, in conversation c
UserTurnOf(s, c) ==
  {u \in msgDocs : /\ u.sender = "user" /\ u.chatId = c
                   /\ u.text = TextOrImageTag(sub[s].text)}

\* C34: every turn a submission appends, the user turn, the assistant turn
\* or the error turn, goes to the conversation the submission was made in,
\* whichever conversation is active when it is written: an assistant or
\* error turn is stored in the conversation that holds the submission's
\* user turn, and no conversation holds an assistant turn without a user
\* turn.
C34_TurnsStayInConversation ==
  /\ [](\A m \in msgDocs :
          m.sender = "ai" => \E u \in msgDocs : u.sender = "user" /\ u.chatId = m.chatId)
  /\ [][\A s \in 1..MaxSlots :
          Acts(s) =>
            \A m \in msgDocs' \ msgDocs :
              /\ m.chatId = sub[s].chatId
              /\ m.sender = "ai" => UserTurnOf(s, m.chatId) # {}]_vars

\* a submission has ended while another conversation was active: its user
\* turn and its assistant turn are in the conversation it was made in
C34_Witness ==
  /\ Running = {} /\ currentChatId # NoChat
  /\ \E m \in msgDocs : m.sender = "user" /\ m.chatId # currentChatId
  /\ \E m \in msgDocs : m.sender = "ai" /\ m.chatId # currentChatId

\* the same with an error turn, written after the backend failed
C34_ErrorWitness ==
  /\ Running = {} /\ currentChatId # NoChat
  /\ \E m \in msgDocs : m.sender = "ai" /\ m.isError /\ m.chatId # currentChatId
(* ------------------------------ C35 ------------------------------------ *)
\* the assistant-authored turns stored in conversation c
AiTurnsOf(c) == {m \in msgDocs : m.chatId = c /\ m.sender = "ai"}

\* C35: a conversation holds at most one assistant-authored turn, normal or
\* error-flagged, for each submission accepted in it, whichever backend
\* answers and store writes fail.
C35_OneAiTurnPerSubmission ==
  \A c \in ChatIds : Cardinality(AiTurnsOf(c)) <= ledger[c].accepted
(* ------------------------------ C36 ------------------------------------ *)
\* conversation c holds a user turn
UserTurnStored(c) == \E m \in msgDocs : m.chatId = c /\ m.sender = "user"

\* a submission of conversation c is at the append of its error turn and
\* the store may refuse it
ErrAppendMayBeRefused(c) ==
  \E s \in 1..MaxSlots :
    sub[s].chatId = c /\ sub[s].pc = "awaitErrAdd" /\ MayFail

\* a submission of conversation c has just stored its user turn
\* (AIChat.jsx:296 has resolved)
UserTurnJustStored(c) ==
  /\ UserTurnStored(c)
  /\ \E s \in 1..MaxSlots : sub[s].chatId = c /\ sub[s].pc = "awaitUserMeta"

\* C36: once the user turn of a submission is stored, an assistant-authored
\* turn, normal or error-flagged, is stored in the same conversation later
\* on, unless the store refuses the append of the error turn.
C36_UserTurnIsAnswered ==
  \A c \in ChatIds :
    UserTurnJustStored(c) ~> (AiTurnsOf(c) # {} \/ ErrAppendMayBeRefused(c))

\* the submission has ended on the failed update that follows its user
\* turn: the turn is stored, no assistant-authored turn is, the store would
\* accept every further write
C36_Unanswered ==
  /\ Running = {} /\ ~isLoading /\ sends = 0 /\ faults = 0
  /\ \E c \in ChatIds : UserTurnStored(c) /\ AiTurnsOf(c) = {}
                          /\ c \in DOMAIN chatDocs
                          /\ chatDocs[c].lastSender # "user"
(* ------------------------------ C37 ------------------------------------ *)
\* the delayed onAuthSuccess of the sign-in form fires (part_001:75-83): the
\* application stores a new user object (App.jsx:32-34), and the effect of
\* AIChat.jsx:154-158, which depends on the user object, runs again and
\* calls createNewChat if no conversation is current yet
AuthSuccessFire ==
  /\ authTimer > 0 /\ authTimer' = authTimer - 1
  /\ pendingNew' = IF currentChatId = NoChat THEN pendingNew + 1 ELSE pendingNew
  /\ UNCHANGED <<store, ui, side, sub, timers, del, clr, budget, ledger>>

\* A session started from the sign-in form: onAuthStateChanged has delivered
\* the user (App.jsx:14-25), the chat component has mounted and called
\* createNewChat, and the form's one-second timer is running.
AuthSends == 1

InitAuth ==
  /\ chatDocs = <<>> /\ msgDocs = {} /\ clock = 0
  /\ nextChatId = 1 /\ nextMsgId = 1
  /\ messages = <<>> /\ input = <<>> /\ isLoading = FALSE
  /\ currentChatId = NoChat /\ selectedImage = NoImage
  /\ msgSub = "none" /\ lastSnap = <<>>
  /\ chats = <<>> /\ isClearing = FALSE
  /\ searchQuery = <<>> /\ selectedCategory = "all"
  /\ patches = {} /\ edits = 0
  /\ sub = [s \in 1..MaxSlots |-> IdleSub]
  /\ pendingNew = 1 /\ timers = 0 /\ authTimer = 1
  /\ del = IdleDel /\ clr = IdleClr
  /\ sends = AuthSends /\ others = 0 /\ faults = 0 /\ dels = 0
  /\ ledger = [c \in ChatIds |-> NoLedger]

NextAuth ==
  \/ AuthSuccessFire
  \/ TypeInput(TextHi)
  \/ CreateNewChatResolve
  \/ MessagesSnapshot
  \/ ChatsSnapshot
  \/ HandleSendMessage
  \/ Render
  \/ SendOkSteps({Resp(200)}, {BodyPlain})

SpecAuth == InitAuth /\ [][NextAuth]_vars

\* C37: starting a session creates one conversation: the second delivery of
\* the user identity makes no createNewChat call, and as long as the user
\* has submitted nothing the store holds at most one conversation.
C37_OneConversationPerSession ==
  /\ [][authTimer' < authTimer => pendingNew' = pendingNew]_vars
  /\ [](sends = AuthSends => Cardinality(DOMAIN chatDocs) <= 1)

\* the user has done nothing and the session has two conversations
C37_TwoConversations ==
  /\ sends = AuthSends /\ input = <<>> /\ authTimer = 0 /\ pendingNew = 0
  /\ Cardinality(DOMAIN chatDocs) = 2 /\ currentChatId = 2
(* ------------------------------ C38 ------------------------------------ *)
\* Clearing under a filter: the registry of three conversations, a search
\* string and a category tab, one clear-all, and another client that
\* appends a turn.
SweepRuns == 1
SweepOthers == 1

InitSweep ==
  /\ chatDocs = [c \in 1..PanelChats |->
                   IF c = 1
                     THEN [NewChatDoc(1) EXCEPT !.title = trim(TextHi),
                                                !.lastMessage = TextHi,
                                                !.lastSender = "ai",
                                                !.updatedAt = PanelChats + 3]
                     ELSE NewChatDoc(c)]
  /\ msgDocs = {MsgDoc(1, 1, "user", TextHi, PanelChats + 1, NoImage, <<>>, FALSE),
                MsgDoc(2, 1, "ai", TextHi, PanelChats + 2, NoImage, <<>>, FALSE)}
  /\ clock = PanelChats + 3 /\ nextChatId = PanelChats + 1 /\ nextMsgId = 3
  /\ messages = <<>> /\ input = <<>> /\ isLoading = FALSE
  /\ currentChatId = PanelChats /\ selectedImage = NoImage
  /\ msgSub = "new" /\ lastSnap = <<>>
  /\ chats = <<>> /\ isClearing = FALSE
  /\ searchQuery = <<>> /\ selectedCategory = "all"
  /\ patches = {} /\ edits = 0
  /\ sub = [s \in 1..MaxSlots |-> IdleSub]
  /\ pendingNew = 0 /\ timers = 0 /\ authTimer = 0
  /\ del = IdleDel /\ clr = IdleClr
  /\ sends = 0 /\ others = SweepOthers /\ faults = 0 /\ dels = SweepRuns
  /\ ledger = [c \in ChatIds |-> NoLedger]

NextSweep ==
  \/ ChatsSnapshot
  \/ MessagesSnapshot
  \/ CreateNewChatResolve
  \/ \E q \in {<<>>, TextQuery, TextNoMatch} : SetSearchQuery(q)
  \/ \E cat \in {"all", "work", "personal"} : SetSelectedCategory(cat)
  \/ \E c \in 1..PanelChats, sender \in {"user", "ai"} : OtherClientAppend(c, sender)
  \/ \E first, second \in BOOLEAN : HandleClearAllChats(first, second)
  \/ ClearSteps

SpecSweep == InitSweep /\ [][NextSweep]_vars

\* C38: a clear-all starts on every row of the live list, whatever the
\* search string and the category tab show of it; when it has run to its
\* end, none of these conversations is stored any more and no turn of them
\* that existed when it started is.
C38_ClearAllIgnoresFilter ==
  /\ [][(~ClearRunning /\ ClearRunning') => Captured' = Rows]_vars
  /\ [](clr.pc = "done" =>
          /\ Captured \cap DOMAIN chatDocs = {}
          /\ \A m \in msgDocs :
               m.chatId \in Captured => m.createdAt > clr.since)

\* a clear-all started while the view showed no row at all has deleted the
\* three conversations of the list and the two turns stored at its start; a
\* turn another client appended meanwhile is left
C38_Witness ==
  /\ clr.pc = "done" /\ searchQuery = TextNoMatch /\ Shown = {}
  /\ Captured = 1..PanelChats /\ chatDocs = <<>>
  /\ \E m \in msgDocs : m.chatId = 1 /\ m.createdAt > clr.since
(* ------------------------------ C39 ------------------------------------ *)
\* Pinning twice: the registry of three conversations, none pinned; the
\* user clicks the pin of the first conversation twice, the sidebar's list
\* is refreshed at any moment.
PinEdits == 2

InitPin ==
  /\ chatDocs = [c \in 1..PanelChats |->
                   IF c = 1
                     THEN [NewChatDoc(1) EXCEPT !.title = trim(TextHi),
                                                !.lastMessage = TextHi,
                                                !.lastSender = "ai",
                                                !.updatedAt = PanelChats + 3]
                     ELSE NewChatDoc(c)]
  /\ msgDocs = {MsgDoc(1, 1, "user", TextHi, PanelChats + 1, NoImage, <<>>, FALSE),
                MsgDoc(2, 1, "ai", TextHi, PanelChats + 2, NoImage, <<>>, FALSE)}
  /\ clock = PanelChats + 3 /\ nextChatId = PanelChats + 1 /\ nextMsgId = 3
  /\ messages = <<>> /\ input = <<>> /\ isLoading = FALSE
  /\ currentChatId = PanelChats /\ selectedImage = NoImage
  /\ msgSub = "new" /\ lastSnap = <<>>
  /\ chats = <<>> /\ isClearing = FALSE
  /\ searchQuery = <<>> /\ selectedCategory = "all"
  /\ patches = {} /\ edits = PinEdits
  /\ sub = [s \in 1..MaxSlots |-> IdleSub]
  /\ pendingNew = 0 /\ timers = 0 /\ authTimer = 0
  /\ del = IdleDel /\ clr = IdleClr
  /\ sends = 0 /\ others = 0 /\ faults = 0 /\ dels = 0
  /\ ledger = [c \in ChatIds |-> NoLedger]

NextPin ==
  \/ ChatsSnapshot
  \/ MessagesSnapshot
  \/ \E q \in {<<>>, TextQuery, TextNoMatch} : SetSearchQuery(q)
  \/ \E cat \in {"all", "work", "personal"} : SetSelectedCategory(cat)
  \/ HandlePinChat(1)
  \/ \E p \in patches : PatchResolve(p)

SpecPin == InitPin /\ [][NextPin]_vars

\* C39: when the pin of the first conversation has been clicked twice and
\* both writes are done, the conversation has the pinned value it started
\* with: it is not pinned.
C39_TwoTogglesRestore ==
  (edits = 0 /\ patches = {}) => ~chatDocs[1].pinned

\* the pin was clicked twice, both writes are done, the list is up to date,
\* and the conversation is pinned
C39_StillPinned ==
  /\ edits = 0 /\ patches = {} /\ chats = ChatsQuery
  /\ chatDocs[1].pinned /\ FindRow(1).pinned
(* ------------------------------ C40 ------------------------------------ *)
\* A submit without a conversation: the session starts while the mount
\* effect's createNewChat is pending, the user types a text or picks an
\* image and submits; one store call may fail.
NoChatSends == 1
NoChatFaults == 1

InitNoChat == Start(NoChatSends, 0, NoChatFaults, 0)

NextNoChat ==
  \/ \E t \in {TextHi, TextLong} : TypeInput(t)
  \/ HandleImageSelect
  \/ CreateNewChatResolve
  \/ MessagesSnapshot
  \/ ChatsSnapshot
  \/ HandleSendMessage
  \/ Render
  \/ SendOkSteps({Resp(200)}, {BodyPlain})
  \/ SendErrSteps

SpecNoChat == InitNoChat /\ [][NextNoChat]_vars

\* what the input box can hold when the user submits
TypedTexts == {<<>>, TextHi, TextLong}

\* the no-chat branch of submission s ends in this step
NoChatBranchEnds(s) == sub[s].pc = "awaitNewChat" /\ sub'[s].pc # "awaitNewChat"

\* the step appends no turn, starts no request and ends the submission
NoTurnNoRequest(s) ==
  /\ msgDocs' = msgDocs
  /\ sub'[s].pc = "idle" /\ ~isLoading'
  /\ \A r \in 1..MaxSlots : r # s => sub'[r] = sub[r]

\* the step adds exactly one conversation and makes it the current one
OneChatCreated ==
  /\ Cardinality(DOMAIN chatDocs' \ DOMAIN chatDocs) = 1
  /\ DOMAIN chatDocs \subseteq DOMAIN chatDocs'
  /\ currentChatId' \in DOMAIN chatDocs' \ DOMAIN chatDocs

\* the step creates nothing and leaves the input as it was
NothingCreated ==
  /\ chatDocs' = chatDocs /\ currentChatId' = currentChatId /\ input' = input

\* C40 as stated: a submit made without an active conversation appends no
\* turn and sends no request; it creates one conversation, makes it the
\* current one, puts the text the user typed back into the input and
\* returns to idle.
C40_NoChatSubmitRestoresTyped ==
  [][\A s \in 1..MaxSlots :
       NoChatBranchEnds(s) =>
         /\ NoTurnNoRequest(s)
         /\ OneChatCreated
         /\ \A t \in TypedTexts : trim(t) = sub[s].text => input' = t]_vars

\* C40: a submit made without an active conversation appends no turn and
\* sends no request and returns to idle; when createNewChat succeeds it has
\* created one conversation, made it the current one and put the trimmed
\* text back into the input; when createNewChat fails nothing is created
\* and the input stays as it is.
C40_NoChatSubmit ==
  [][\A s \in 1..MaxSlots :
       NoChatBranchEnds(s) =>
         /\ NoTurnNoRequest(s)
         /\ \/ OneChatCreated /\ input' = sub[s].text
            \/ NothingCreated]_vars

\* the submit of "hi " has created the conversation and the input holds "hi"
C40_Witness ==
  /\ sends = 0 /\ \A s \in 1..MaxSlots : sub[s].pc = "idle"
  /\ ~isLoading /\ input = trim(TextHi) /\ input # TextHi
  /\ currentChatId \in DOMAIN chatDocs /\ msgDocs = {}

\* createNewChat failed for the submit: no conversation, the input is empty
C40_FailedWitness ==
  /\ sends = 0 /\ faults = 0 /\ \A s \in 1..MaxSlots : sub[s].pc = "idle"
  /\ ~isLoading /\ input = <<>> /\ selectedImage = NoImage
  /\ currentChatId = NoChat /\ pendingNew = 1 /\ chatDocs = <<>>
====
